---- MODULE Spec2Model ----
(***************************************************************************)
(* A model of the class-file reader of the `classfile` crate               *)
(* (src/src/class_reader.rs, src/src/label.rs): the bootstrap-method       *)
(* resolver, the bytecode decoder, and the class and method event state    *)
(* machines.  Each subsystem has its own specification (SpecBsm, ...)      *)
(* over its own group of variables; the other groups stay idle.            *)
(***************************************************************************)
EXTENDS Integers, Sequences, FiniteSets, TLC

VARIABLES
    \* BootstrapMethods::compute (class_reader.rs 873-1031)
    unresolved_bsms,   \* Vec<UnresolvedBsm>: entry index -> its argument list
    resolved_states,   \* Vec<ResolvedState>
    resolved_bsms,     \* Vec<BootstrapMethod>, pre-filled with dummy values
    bsm_stack,         \* the activations of resolve(), innermost last
    bsm_i,             \* the `for i in 0..bsm_count` loop of compute
    bsm_result,        \* "running", or what compute returned
    \* CodeData::read_code (class_reader.rs 2143-2675)
    rc_program,        \* the instructions the code array was assembled from
    rc_code,           \* code: &[u8]
    rc_st,             \* i, insn_metadata, the label creator's next_id, the error
    rc_done,           \* read_code has returned
    \* CodeData::read (class_reader.rs 1928-2141)
    cd_program,        \* the instructions the code of the attribute was assembled from
    cd_attr,           \* the Code attribute read
    cd_flags,          \* reader.reader_flags
    cd_result,         \* what CodeData::read returned
    cd_done,           \* CodeData::read has returned
    \* ClassMethodsIterator and MethodReaderEvents (class_reader.rs 1272-1912)
    overflow_checks,   \* the build panics on integer overflow (TRUE) or wraps (FALSE)
    reader_flags,      \* reader.reader_flags
    cm_methods,        \* the methods of the class, each the sequence of its attributes
    cm_remaining,      \* ClassMethodsIterator::remaining
    mr,                \* the MethodReaderEvents of the method taken last
    mr_status,         \* "none", "active", "failed" (event() returned Err), "panicked", "hung"
    mr_out,            \* per method taken, the items its next() has returned
    \* ClassEventSource::events, ClassReaderEvents, CustomAttributeReaderIterator
    \* (class_reader.rs 294-462, 713-809, 4118-4165)
    cr_class,          \* the class file: what its tables were encoded from
    cr_reader,         \* the ClassReader: buffer, reader_flags; and the build's overflow_checks
    cr,                \* the ClassReaderEvents
    cr_status,         \* "new", "active", "failed" (events() returned Err), "panicked"
    cr_out,            \* the items next() has returned
    ca,                \* the CustomAttributeReaderIterator of the Attributes event
    ca_out,            \* the items its next() has returned
    \* BootstrapMethods::get_all and its clones (class_reader.rs 849-871, 703-710, 1432)
    bm_attr,           \* the BootstrapMethods attribute of the class
    cache,             \* Arc<OnceLock<ClassFileResult<Vec<BootstrapMethod>>>>: None or Some(result)
    bm_clones,         \* the clones of BootstrapMethods: per clone, the call to get() in progress
    bm_computes,       \* how many times compute() has run
    bm_returns,        \* what the calls to get() have returned
    \* ClassReader::new, ConstantPool and ConstantPoolIntoIter
    \* (class_reader.rs 96-118, constant_pool.rs 84-340)
    cp_file,           \* the file: its bytes and what its constant pool was encoded from
    cp_reader,         \* what ClassReader::new returned: the error, or the pool's offset table
    cp_status,         \* "new", "ready", "failed" (new returned Err)
    cp_call,           \* the accessor of the pool called last and what it returned
    cp_iter,           \* ConstantPoolIntoIter::index
    cp_out,            \* the items ConstantPoolIntoIter::next has returned
    \* A ClassBuffer and the calls an embedder makes on it.
    bf_origin,         \* the bytes the first cursor was made over
    bf_base,           \* where in them the cursor at hand starts
    bf_data,           \* the bytes of the cursor at hand
    bf_call,           \* the last call on it and what it returned
    bf_status,         \* "none", "ok", "panicked"
    \* The events of one method read under flags and read again under none.
    fl_method,         \* the attributes of the method
    fl_flags,          \* the flags of the first reader
    fl_with,           \* the MethodReaderEvents of the reader with the flags
    fl_without,        \* the MethodReaderEvents of the reader without flags
    fl_out_with,       \* what the first has returned
    fl_out_without,    \* what the second has returned
    \* One field of a class and the FieldReaderEvents over it.
    fd_attrs,          \* the names of the attributes of the field, in file order
    fd_checks,         \* whether the build checks integer overflow
    fd,                \* the FieldReaderEvents, <<>> before the field is read
    fd_status,         \* "none", "new", "active", "panicked"
    fd_out,            \* what next() has returned, a None after a None left out
    \* One stack map table and read_frames over its bytes.
    sf_table,          \* the frames of the table as the class file declares them
    sf_compressed,     \* TRUE for StackMapTable, FALSE for StackMap
    sf_data,           \* the bytes of the table from its frame count on
    sf,                \* the locals of read_frames, <<>> outside a call
    sf_frames,         \* the frames stored in insn_metadata, in the order stored
    sf_status,         \* "none", "called", "reading", "ok", "err"
    \* One annotation or element value and its decoding.
    an_entry,          \* "annotation" (an annotation attribute) or "value" (AnnotationDefault)
    an_tree,           \* the annotation or the value as the class file nests it
    an_result,         \* what the decoder returned, <<>> before it has
    \* The module attributes of a module-info class and the ModuleReaderEvents over them.
    md_module,         \* the module as the class file declares it
    md_data,           \* the bytes of the three module attributes
    md,                \* the ModuleReaderEvents, <<>> before the Module event is taken
    md_status,         \* "none", "new", "active", "panicked"
    md_out,            \* what next() has returned
    \* The two annotations attributes of a member and the AnnotationReaderIterator over them.
    ai_visible,        \* the annotations of RuntimeVisibleAnnotations, in file order
    ai_invisible,      \* the annotations of RuntimeInvisibleAnnotations, in file order
    ai_data,           \* the bytes of the two attributes
    ai,                \* the AnnotationReaderIterator, <<>> before annotations() is called
    ai_out,            \* what next() has returned
    \* DefaultLabelCreator shared by concurrent callers (label.rs 10-19)
    lc_next_id,        \* DefaultLabelCreator::next_id, an AtomicU32
    lc_callers,        \* per caller, "idle" or "calling" create_label
    lc_labels          \* per caller, the Labels its calls have returned

bsmVars == <<unresolved_bsms, resolved_states, resolved_bsms, bsm_stack, bsm_i, bsm_result>>

rcVars == <<rc_program, rc_code, rc_st, rc_done>>

cdVars == <<cd_program, cd_attr, cd_flags, cd_result, cd_done>>

mrVars == <<overflow_checks, reader_flags, cm_methods, cm_remaining, mr, mr_status, mr_out>>

crVars == <<cr_class, cr_reader, cr, cr_status, cr_out, ca, ca_out>>

bmVars == <<bm_attr, cache, bm_clones, bm_computes, bm_returns>>

cpVars == <<cp_file, cp_reader, cp_status, cp_call, cp_iter, cp_out>>

bfVars == <<bf_origin, bf_base, bf_data, bf_call, bf_status>>

flVars == <<fl_method, fl_flags, fl_with, fl_without, fl_out_with, fl_out_without>>

fdVars == <<fd_attrs, fd_checks, fd, fd_status, fd_out>>

sfVars == <<sf_table, sf_compressed, sf_data, sf, sf_frames, sf_status>>

anVars == <<an_entry, an_tree, an_result>>

mdVars == <<md_module, md_data, md, md_status, md_out>>

aiVars == <<ai_visible, ai_invisible, ai_data, ai, ai_out>>

lcVars == <<lc_next_id, lc_callers, lc_labels>>

vars == <<bsmVars, rcVars, cdVars, mrVars, crVars, bmVars, cpVars, bfVars, flVars, fdVars, sfVars, anVars, mdVars, aiVars, lcVars>>

bsmOthers == <<rcVars, cdVars, mrVars, crVars, bmVars, cpVars, bfVars, flVars, fdVars, sfVars, anVars, mdVars, aiVars, lcVars>>

rcOthers == <<bsmVars, cdVars, mrVars, crVars, bmVars, cpVars, bfVars, flVars, fdVars, sfVars, anVars, mdVars, aiVars, lcVars>>

cdOthers == <<bsmVars, rcVars, mrVars, crVars, bmVars, cpVars, bfVars, flVars, fdVars, sfVars, anVars, mdVars, aiVars, lcVars>>

mrOthers == <<bsmVars, rcVars, cdVars, crVars, bmVars, cpVars, bfVars, flVars, fdVars, sfVars, anVars, mdVars, aiVars, lcVars>>

crOthers == <<bsmVars, rcVars, cdVars, mrVars, bmVars, cpVars, bfVars, flVars, fdVars, sfVars, anVars, mdVars, aiVars, lcVars>>

bmOthers == <<bsmVars, rcVars, cdVars, mrVars, crVars, cpVars, bfVars, flVars, fdVars, sfVars, anVars, mdVars, aiVars, lcVars>>

cpOthers == <<bsmVars, rcVars, cdVars, mrVars, crVars, bmVars, bfVars, flVars, fdVars, sfVars, anVars, mdVars, aiVars, lcVars>>

bfOthers == <<bsmVars, rcVars, cdVars, mrVars, crVars, bmVars, cpVars, flVars, fdVars, sfVars, anVars, mdVars, aiVars, lcVars>>

flOthers == <<bsmVars, rcVars, cdVars, mrVars, crVars, bmVars, cpVars, bfVars, fdVars, sfVars, anVars, mdVars, aiVars, lcVars>>

fdOthers == <<bsmVars, rcVars, cdVars, mrVars, crVars, bmVars, cpVars, bfVars, flVars, sfVars, anVars, mdVars, aiVars, lcVars>>

sfOthers == <<bsmVars, rcVars, cdVars, mrVars, crVars, bmVars, cpVars, bfVars, flVars, fdVars, anVars, mdVars, aiVars, lcVars>>

anOthers == <<bsmVars, rcVars, cdVars, mrVars, crVars, bmVars, cpVars, bfVars, flVars, fdVars, sfVars, mdVars, aiVars, lcVars>>

mdOthers == <<bsmVars, rcVars, cdVars, mrVars, crVars, bmVars, cpVars, bfVars, flVars, fdVars, sfVars, anVars, aiVars, lcVars>>

aiOthers == <<bsmVars, rcVars, cdVars, mrVars, crVars, bmVars, cpVars, bfVars, flVars, fdVars, sfVars, anVars, mdVars, lcVars>>

lcOthers == <<bsmVars, rcVars, cdVars, mrVars, crVars, bmVars, cpVars, bfVars, flVars, fdVars, sfVars, anVars, mdVars, aiVars>>

(***************************************************************************)
(* Each specification runs one part of the reader; the variables of the    *)
(* other parts rest at these values.                                       *)
(***************************************************************************)
BsmIdle ==
    /\ unresolved_bsms = <<>>
    /\ resolved_states = <<>>
    /\ resolved_bsms = <<>>
    /\ bsm_stack = <<>>
    /\ bsm_i = 0
    /\ bsm_result = "Ok"

RcIdle ==
    /\ rc_program = <<>>
    /\ rc_code = [head |-> <<>>, len |-> 0]
    /\ rc_st = [err |-> ""]
    /\ rc_done = TRUE

CdIdle ==
    /\ cd_program = <<>>
    /\ cd_attr = <<>>
    /\ cd_flags = {}
    /\ cd_result = [err |-> ""]
    /\ cd_done = TRUE

MrIdle ==
    /\ overflow_checks = FALSE
    /\ reader_flags = {}
    /\ cm_methods = <<>>
    /\ cm_remaining = 0
    /\ mr = <<>>
    /\ mr_status = "none"
    /\ mr_out = <<>>

CrIdle ==
    /\ cr_class = <<>>
    /\ cr_reader = <<>>
    /\ cr = <<>>
    /\ cr_status = "none"
    /\ cr_out = <<>>
    /\ ca = <<>>
    /\ ca_out = <<>>

BmIdle ==
    /\ bm_attr = <<>>
    /\ cache = <<>>
    /\ bm_clones = <<>>
    /\ bm_computes = 0
    /\ bm_returns = <<>>

CpIdle ==
    /\ cp_file = <<>>
    /\ cp_reader = <<>>
    /\ cp_status = "none"
    /\ cp_call = <<>>
    /\ cp_iter = 0
    /\ cp_out = <<>>

BfIdle ==
    /\ bf_origin = <<>>
    /\ bf_base = 0
    /\ bf_data = <<>>
    /\ bf_call = <<>>
    /\ bf_status = "none"

FlIdle ==
    /\ fl_method = <<>>
    /\ fl_flags = {}
    /\ fl_with = <<>>
    /\ fl_without = <<>>
    /\ fl_out_with = <<>>
    /\ fl_out_without = <<>>

FdIdle ==
    /\ fd_attrs = <<>>
    /\ fd_checks = FALSE
    /\ fd = <<>>
    /\ fd_status = "none"
    /\ fd_out = <<>>

SfIdle ==
    /\ sf_table = <<>>
    /\ sf_compressed = FALSE
    /\ sf_data = <<>>
    /\ sf = <<>>
    /\ sf_frames = <<>>
    /\ sf_status = "none"

AnIdle ==
    /\ an_entry = ""
    /\ an_tree = <<>>
    /\ an_result = <<>>

MdIdle ==
    /\ md_module = <<>>
    /\ md_data = <<>>
    /\ md = <<>>
    /\ md_status = "none"
    /\ md_out = <<>>

AiIdle ==
    /\ ai_visible = <<>>
    /\ ai_invisible = <<>>
    /\ ai_data = <<>>
    /\ ai = <<>>
    /\ ai_out = <<>>

LcIdle ==
    /\ lc_next_id = 0
    /\ lc_callers = <<>>
    /\ lc_labels = <<>>

BsmRest == RcIdle /\ CdIdle /\ MrIdle /\ CrIdle /\ BmIdle /\ CpIdle /\ BfIdle /\ FlIdle /\ FdIdle /\ SfIdle /\ AnIdle /\ MdIdle /\ AiIdle /\ LcIdle

RcRest == BsmIdle /\ CdIdle /\ MrIdle /\ CrIdle /\ BmIdle /\ CpIdle /\ BfIdle /\ FlIdle /\ FdIdle /\ SfIdle /\ AnIdle /\ MdIdle /\ AiIdle /\ LcIdle

CdRest == BsmIdle /\ RcIdle /\ MrIdle /\ CrIdle /\ BmIdle /\ CpIdle /\ BfIdle /\ FlIdle /\ FdIdle /\ SfIdle /\ AnIdle /\ MdIdle /\ AiIdle /\ LcIdle

MrRest == BsmIdle /\ RcIdle /\ CdIdle /\ CrIdle /\ BmIdle /\ CpIdle /\ BfIdle /\ FlIdle /\ FdIdle /\ SfIdle /\ AnIdle /\ MdIdle /\ AiIdle /\ LcIdle

CrRest == BsmIdle /\ RcIdle /\ CdIdle /\ MrIdle /\ BmIdle /\ CpIdle /\ BfIdle /\ FlIdle /\ FdIdle /\ SfIdle /\ AnIdle /\ MdIdle /\ AiIdle /\ LcIdle

BmRest == BsmIdle /\ RcIdle /\ CdIdle /\ MrIdle /\ CrIdle /\ CpIdle /\ BfIdle /\ FlIdle /\ FdIdle /\ SfIdle /\ AnIdle /\ MdIdle /\ AiIdle /\ LcIdle

CpRest == BsmIdle /\ RcIdle /\ CdIdle /\ MrIdle /\ CrIdle /\ BmIdle /\ BfIdle /\ FlIdle /\ FdIdle /\ SfIdle /\ AnIdle /\ MdIdle /\ AiIdle /\ LcIdle

BfRest == BsmIdle /\ RcIdle /\ CdIdle /\ MrIdle /\ CrIdle /\ BmIdle /\ CpIdle /\ FlIdle /\ FdIdle /\ SfIdle /\ AnIdle /\ MdIdle /\ AiIdle /\ LcIdle

FlRest == BsmIdle /\ RcIdle /\ CdIdle /\ MrIdle /\ CrIdle /\ BmIdle /\ CpIdle /\ BfIdle /\ FdIdle /\ SfIdle /\ AnIdle /\ MdIdle /\ AiIdle /\ LcIdle

FdRest == BsmIdle /\ RcIdle /\ CdIdle /\ MrIdle /\ CrIdle /\ BmIdle /\ CpIdle /\ BfIdle /\ FlIdle /\ SfIdle /\ AnIdle /\ MdIdle /\ AiIdle /\ LcIdle

SfRest == BsmIdle /\ RcIdle /\ CdIdle /\ MrIdle /\ CrIdle /\ BmIdle /\ CpIdle /\ BfIdle /\ FlIdle /\ FdIdle /\ AnIdle /\ MdIdle /\ AiIdle /\ LcIdle

AnRest == BsmIdle /\ RcIdle /\ CdIdle /\ MrIdle /\ CrIdle /\ BmIdle /\ CpIdle /\ BfIdle /\ FlIdle /\ FdIdle /\ SfIdle /\ MdIdle /\ AiIdle /\ LcIdle

MdRest == BsmIdle /\ RcIdle /\ CdIdle /\ MrIdle /\ CrIdle /\ BmIdle /\ CpIdle /\ BfIdle /\ FlIdle /\ FdIdle /\ SfIdle /\ AnIdle /\ AiIdle /\ LcIdle

AiRest == BsmIdle /\ RcIdle /\ CdIdle /\ MrIdle /\ CrIdle /\ BmIdle /\ CpIdle /\ BfIdle /\ FlIdle /\ FdIdle /\ SfIdle /\ AnIdle /\ MdIdle /\ LcIdle

LcRest == BsmIdle /\ RcIdle /\ CdIdle /\ MrIdle /\ CrIdle /\ BmIdle /\ CpIdle /\ BfIdle /\ FlIdle /\ FdIdle /\ SfIdle /\ AnIdle /\ MdIdle /\ AiIdle

(***************************************************************************)
(* Bounds of the model.                                                    *)
(***************************************************************************)
\* The largest BootstrapMethods table (bsm_count) the model draws.
MaxBsm == 2

\* The argument-list lengths drawn for one bootstrap method.
BsmArgLens == {0, 1, 2}

\* The longest program of sample instructions the decoder is run on.
MaxInsns == 2

MaxCodeAttrs == 2

\* The most attributes of a method drawn freely.
MaxMethodAttrs == 1

\* The most items recorded for one method.
MaxEvents == 36

\* The most items recorded for one method after its first None.
MaxReplayed == 2

(***************************************************************************)
(* Generic helpers.                                                        *)
(***************************************************************************)
Last(s) == s[Len(s)]

Front(s) == SubSeq(s, 1, Len(s) - 1)

IsPrefix(s, t) == Len(s) <= Len(t) /\ s = SubSeq(t, 1, Len(s))

SeqsOver(S, lens) == UNION {[1..n -> S] : n \in lens}

(***************************************************************************)
(* BootstrapMethods::compute.  The model starts after the parse loop       *)
(* (lines 906-940) has built unresolved_bsms.  An argument is either a     *)
(* plain constant or a ConstantDynamic naming a bootstrap method by index  *)
(* (bootstrap_method_attr_index), which may be out of range.  A handle is  *)
(* identified with the index of the entry that declares it.                *)
(***************************************************************************)
IntegerArg == [kind |-> "Integer"]

DynamicArg(j) == [kind |-> "ConstantDynamic", bootstrap_method_attr_index |-> j]

\* The arguments an entry of a table of n entries may carry; index n is out of range.
UnresolvedBsmArg(n) == {IntegerArg} \cup {DynamicArg(j) : j \in 0..n}

\* lines 944-955: the dummy pre-fill of resolved_bsms.
DummyBsm == [handle |-> -1, args |-> <<>>]

\* A resolver that takes an entry under resolution for a finished one.
ResolveEntryOutcomeNoCycleCheck(st) ==
    IF st = "Unresolved" THEN "Proceed" ELSE "ReturnOk"

\* lines 963-971: what resolve(i) does on entry, by resolved_states[i].
ResolveEntryOutcome(st) ==
    IF st = "Resolved" THEN "ReturnOk"
    ELSE IF st = "Resolving" THEN "Circular"
    ELSE "Proceed"

\* lines 999-1006: the resolved form of a ConstantDynamic argument naming entry j.
ResolvedDynamicArg(j, bsms) ==
    [kind |-> "ConstantDynamic",
     bootstrap_method |-> bsms[j].handle,
     bootstrap_method_arguments |-> bsms[j].args]

InitBsm ==
    /\ \E n \in 0..MaxBsm :
          unresolved_bsms \in [0..(n - 1) -> SeqsOver(UnresolvedBsmArg(n), BsmArgLens)]
    /\ resolved_states = [i \in DOMAIN unresolved_bsms |-> "Unresolved"]
    /\ resolved_bsms = [i \in DOMAIN unresolved_bsms |-> DummyBsm]
    /\ bsm_stack = <<>>
    /\ bsm_i = 0
    /\ bsm_result = "running"
    /\ BsmRest

bsm_count == Cardinality(DOMAIN unresolved_bsms)

\* The variables the resolver leaves alone.

\* lines 1021-1028: the loop of compute calls resolve(i).
ComputeCallResolve ==
    /\ bsm_result = "running"
    /\ bsm_stack = <<>>
    /\ bsm_i < bsm_count
    /\ bsm_stack' = <<[i |-> bsm_i, pc |-> "entry", pos |-> 1, resolved_args |-> <<>>]>>
    /\ UNCHANGED <<unresolved_bsms, resolved_states, resolved_bsms, bsm_i, bsm_result>>
    /\ UNCHANGED bsmOthers

\* What the caller of a resolve() that returned Ok does next: the loop of
\* compute advances; an outer resolve() clones the resolved entry into its
\* argument list (lines 999-1006) and goes on with its next argument.
ReturnOkTo(stack, i, bsms) ==
    IF stack = <<>> THEN <<>>
    ELSE LET f == Last(stack) IN
         Append(Front(stack),
                [f EXCEPT !.pc = "args",
                          !.pos = f.pos + 1,
                          !.resolved_args = Append(f.resolved_args, ResolvedDynamicArg(i, bsms))])

\* lines 963-971: the entry of resolve(i).
ResolveEnter ==
    /\ bsm_result = "running"
    /\ bsm_stack # <<>>
    /\ Last(bsm_stack).pc = "entry"
    /\ LET f == Last(bsm_stack)
           outcome == ResolveEntryOutcome(resolved_states[f.i])
       IN  CASE outcome = "ReturnOk" ->
                  /\ bsm_stack' = ReturnOkTo(Front(bsm_stack), f.i, resolved_bsms)
                  /\ bsm_i' = IF Len(bsm_stack) = 1 THEN bsm_i + 1 ELSE bsm_i
                  /\ UNCHANGED <<resolved_states, bsm_result>>
             [] outcome = "Circular" ->
                  \* the error propagates through every `?` up to compute's caller
                  /\ bsm_stack' = <<>>
                  /\ bsm_result' = "BootstrapMethodCircularDependency"
                  /\ UNCHANGED <<resolved_states, bsm_i>>
             [] OTHER ->
                  /\ resolved_states' = [resolved_states EXCEPT ![f.i] = "Resolving"]
                  /\ bsm_stack' = Append(Front(bsm_stack), [f EXCEPT !.pc = "args"])
                  /\ UNCHANGED <<bsm_i, bsm_result>>
    /\ UNCHANGED <<unresolved_bsms, resolved_bsms>>
    /\ UNCHANGED bsmOthers

\* lines 974-1010: resolve(i) maps its next argument.
ResolveArg ==
    /\ bsm_result = "running"
    /\ bsm_stack # <<>>
    /\ LET f == Last(bsm_stack)
           args == unresolved_bsms[f.i]
       IN  /\ f.pc = "args"
           /\ f.pos <= Len(args)
           /\ LET arg == args[f.pos] IN
              IF arg.kind # "ConstantDynamic"
              THEN /\ bsm_stack' = Append(Front(bsm_stack),
                                          [f EXCEPT !.pos = f.pos + 1,
                                                    !.resolved_args = Append(f.resolved_args, arg)])
                   /\ UNCHANGED bsm_result
              ELSE IF arg.bootstrap_method_attr_index >= bsm_count
              THEN /\ bsm_stack' = <<>>
                   /\ bsm_result' = "BootstrapMethodOutOfBounds"
              ELSE /\ bsm_stack' = Append(Append(Front(bsm_stack), [f EXCEPT !.pc = "call"]),
                                          [i |-> arg.bootstrap_method_attr_index, pc |-> "entry",
                                           pos |-> 1, resolved_args |-> <<>>])
                   /\ UNCHANGED bsm_result
    /\ UNCHANGED <<unresolved_bsms, resolved_states, resolved_bsms, bsm_i>>
    /\ UNCHANGED bsmOthers

\* lines 1012-1018: resolve(i) stores the resolved entry and returns Ok.
ResolveFinish ==
    /\ bsm_result = "running"
    /\ bsm_stack # <<>>
    /\ LET f == Last(bsm_stack) IN
       /\ f.pc = "args"
       /\ f.pos > Len(unresolved_bsms[f.i])
       /\ resolved_bsms' = [resolved_bsms EXCEPT ![f.i] = [handle |-> f.i, args |-> f.resolved_args]]
       /\ resolved_states' = [resolved_states EXCEPT ![f.i] = "Resolved"]
       /\ bsm_stack' = ReturnOkTo(Front(bsm_stack), f.i, resolved_bsms')
       /\ bsm_i' = IF Len(bsm_stack) = 1 THEN bsm_i + 1 ELSE bsm_i
    /\ UNCHANGED <<unresolved_bsms, bsm_result>>
    /\ UNCHANGED bsmOthers

\* line 1030: compute returns Ok(resolved_bsms).
ComputeReturn ==
    /\ bsm_result = "running"
    /\ bsm_stack = <<>>
    /\ bsm_i = bsm_count
    /\ bsm_result' = "Ok"
    /\ UNCHANGED <<unresolved_bsms, resolved_states, resolved_bsms, bsm_stack, bsm_i>>
    /\ UNCHANGED bsmOthers

NextBsm ==
    \/ ComputeCallResolve
    \/ ResolveEnter
    \/ ResolveArg
    \/ ResolveFinish
    \/ ComputeReturn

\* compute is one sequential call: it keeps running until it returns.
SpecBsm == InitBsm /\ [][NextBsm]_vars /\ WF_vars(NextBsm)

(***************************************************************************)
(* The graph of ConstantDynamic references between bootstrap methods, and  *)
(* the value a correct resolution gives each entry.                        *)
(***************************************************************************)
BsmRefs(i) ==
    {unresolved_bsms[i][k].bootstrap_method_attr_index :
        k \in {k \in 1..Len(unresolved_bsms[i]) : unresolved_bsms[i][k].kind = "ConstantDynamic"}}

BsmAllInRange == \A i \in DOMAIN unresolved_bsms : BsmRefs(i) \subseteq DOMAIN unresolved_bsms

RECURSIVE BsmReach(_, _)
\* The entries reachable from the set S in at most `fuel` further steps.
BsmReach(S, fuel) ==
    LET T == S \cup UNION {BsmRefs(i) : i \in S}
    IN  IF fuel = 0 \/ T = S THEN S ELSE BsmReach(T, fuel - 1)

BsmHasCycle ==
    \E i \in DOMAIN unresolved_bsms : i \in BsmReach(BsmRefs(i), bsm_count)

RECURSIVE BsmExpected(_)
\* The resolved entry i of an acyclic, in-range table.
BsmExpected(i) ==
    [handle |-> i,
     args |-> [k \in 1..Len(unresolved_bsms[i]) |->
                 LET arg == unresolved_bsms[i][k] IN
                 IF arg.kind = "ConstantDynamic"
                 THEN LET r == BsmExpected(arg.bootstrap_method_attr_index) IN
                      [kind |-> "ConstantDynamic",
                       bootstrap_method |-> r.handle,
                       bootstrap_method_arguments |-> r.args]
                 ELSE arg]]

BsmStateRank(st) == IF st = "Unresolved" THEN 0 ELSE IF st = "Resolving" THEN 1 ELSE 2

\* One step moves an entry at most one stage forward and leaves a resolved entry alone.
BsmStepLegal ==
    \A i \in DOMAIN unresolved_bsms :
        /\ BsmStateRank(resolved_states'[i]) \in
              {BsmStateRank(resolved_states[i]), BsmStateRank(resolved_states[i]) + 1}
        /\ resolved_states[i] = "Resolved" =>
              /\ resolved_states'[i] = "Resolved"
              /\ resolved_bsms'[i] = resolved_bsms[i]
        /\ resolved_states'[i] # "Resolved" => resolved_bsms'[i] = DummyBsm

\* C10: BootstrapMethods::compute terminates on every table; with all
\* references in range, an acyclic table comes back with every entry resolved
\* to its expansion and a cyclic one (self-reference included) comes back as
\* Err(BootstrapMethodCircularDependency); every entry only moves
\* Unresolved -> Resolving -> Resolved and is stored once.
C10_ComputeTerminates ==
    /\ <>(bsm_result # "running")
    /\ [](bsm_result # "running" /\ BsmAllInRange /\ ~BsmHasCycle =>
            /\ bsm_result = "Ok"
            /\ \A i \in DOMAIN unresolved_bsms :
                  /\ resolved_states[i] = "Resolved"
                  /\ resolved_bsms[i] = BsmExpected(i))
    /\ [](bsm_result # "running" /\ BsmAllInRange /\ BsmHasCycle =>
            bsm_result = "BootstrapMethodCircularDependency")
    /\ [][BsmStepLegal]_vars

\* A two-entry table whose first entry refers forward to the second, resolved.
C10_Witness ==
    /\ bsm_result = "Ok"
    /\ bsm_count = 2
    /\ 1 \in BsmRefs(0)
    /\ resolved_states = [i \in 0..1 |-> "Resolved"]

(***************************************************************************)
(* Values shared by the bytecode decoder and the event iterators.          *)
(***************************************************************************)
\* Option<T>: None is the empty sequence, Some(v) the sequence of v alone.
None == <<>>

Some(v) == <<v>>

\* lines 2916-2926: InstructionMetadata::default().
EmptyMetadata ==
    [insn_event |-> None, label |-> None, line_number |-> None, frame |-> None,
     annotations |-> <<>>]

\* insn_metadata is kept sparse: an offset outside DOMAIN meta holds the
\* default entry; the length of the slice is carried beside it as meta_len.
MetaAt(meta, index) == IF index \in DOMAIN meta THEN meta[index] ELSE EmptyMetadata

MetaPut(meta, index, m) ==
    [o \in DOMAIN meta \cup {index} |-> IF o = index THEN m ELSE meta[o]]

\* A load of next_id that leaves the counter as it is.
CreateLabelWithoutAdd(next_id) == [label |-> next_id, next_id |-> next_id]

\* label.rs 15-19: fetch_add on next_id.  A method has at most 65536 offsets,
\* so the u32 counter of one creator cannot wrap.
CreateLabel(next_id) == [label |-> next_id, next_id |-> next_id + 1]

\* get_or_create_label without its test of self.label: a new label each time.
LabelAtAlwaysCreated(st, index) ==
    IF st.err # "" THEN st
    ELSE IF index < 0 \/ index >= st.meta_len
    THEN [st EXCEPT !.err = "CodeOffsetOutOfBounds"]
    ELSE LET c == CreateLabel(st.next_id) IN
         [st EXCEPT !.meta = MetaPut(st.meta, index,
                                     [MetaAt(st.meta, index) EXCEPT !.label = Some(c.label)]),
                    !.next_id = c.next_id,
                    !.label = c.label]

\* lines 2971-2980 with 2928-2934:
\* insn_metadata.get_code_mut(index)?.get_or_create_label(label_creator).
\* st carries meta, meta_len, next_id, err ("" while Ok) and the label returned.
LabelAt(st, index) ==
    IF st.err # "" THEN st
    ELSE IF index < 0 \/ index >= st.meta_len
    THEN [st EXCEPT !.err = "CodeOffsetOutOfBounds"]
    ELSE LET m == MetaAt(st.meta, index) IN
         IF m.label # None
         THEN [st EXCEPT !.label = m.label[1]]
         ELSE LET c == CreateLabel(st.next_id) IN
              [st EXCEPT !.meta = MetaPut(st.meta, index, [m EXCEPT !.label = Some(c.label)]),
                         !.next_id = c.next_id,
                         !.label = c.label]

(***************************************************************************)
(* The code array.  A code array is its leading bytes `head` followed by   *)
(* zero bytes up to `len`, so that a 65535-byte array stays small.         *)
(***************************************************************************)
CodeByte(code, index) == IF index < Len(code.head) THEN code.head[index + 1] ELSE 0

\* lines 2945-2962: code.get_code(index) is Ok.
HasCode(code, index) == index < code.len

I8(b) == IF b >= 128 THEN b - 256 ELSE b

\* u16::from_be_bytes, i16::from_be_bytes and i32::from_be_bytes of the bytes at index.
U16At(code, index) == CodeByte(code, index) * 256 + CodeByte(code, index + 1)

I16At(code, index) == I8(CodeByte(code, index)) * 256 + CodeByte(code, index + 1)

I32At(code, index) ==
    I8(CodeByte(code, index)) * 16777216 + CodeByte(code, index + 1) * 65536
        + CodeByte(code, index + 2) * 256 + CodeByte(code, index + 3)

\* u32::from_be_bytes; a value of 2^31 or more is held as 2^31 - 1, which like
\* it exceeds every index of a code array.
U32At(code, index) ==
    IF CodeByte(code, index) >= 128 THEN 2147483647 ELSE I32At(code, index)

\* line 2518: high.wrapping_sub(low) as u32 for low <= high, held as 2^31 - 2
\* when it is that or more.
LabelCountM1(low, high) ==
    IF low < 0 /\ high >= low + 2147483646 THEN 2147483646 ELSE high - low

\* lines 2490, 2543: (i + 1).next_multiple_of(4).
NextMultipleOf4(n) == ((n + 3) \div 4) * 4

\* A branch that reads its offset from the byte after the opcode.
BranchTargetFromOperand(insn_base, branch) == insn_base + 1 + branch

\* lines 2281, 2484, 2498, 2529, 2551, 2577: insn_base.wrapping_add_signed(branch
\* as isize).  A negative sum stands for the wrapped usize, which is above
\* every slice length.
BranchTarget(insn_base, branch) == insn_base + branch

(***************************************************************************)
(* The constant pool and bootstrap-method table the decoded method sees.   *)
(***************************************************************************)
\* The tags of the pool's entries 1..8.
ConstantPoolTags ==
    <<"Integer", "Class", "FieldRef", "MethodRef", "InterfaceMethodRef",
      "InvokeDynamic", "Utf8", "String">>

\* constant_pool.rs 128-137 and 139-147: get_type(index).
CpGetType(index) ==
    IF index \in DOMAIN ConstantPoolTags
    THEN [err |-> "", tag |-> ConstantPoolTags[index]]
    ELSE [err |-> "BadConstantPoolIndex", tag |-> ""]

\* constant_pool.rs 168-203: a typed getter; the error it returns, "" for Ok.
CpExpect(index, tag) ==
    LET t == CpGetType(index) IN
    IF t.err # "" THEN t.err
    ELSE IF t.tag # tag THEN "BadConstantPoolType" ELSE ""

\* lines 2677-2708: get_ldc_constant; the error it returns, "" for Ok.
GetLdcConstant(index) ==
    LET t == CpGetType(index) IN
    IF t.err # "" THEN t.err
    \* a Dynamic entry is looked up in the bootstrap-method table, taken to hold it
    ELSE IF t.tag \in {"Integer", "Float", "Long", "Double", "String", "Class",
                       "MethodType", "MethodHandle", "Dynamic"}
    THEN ""
    ELSE "BadConstantPoolTypeExpectedLdcOperand"

(***************************************************************************)
(* CodeData::read_code, one instruction at a time.  The decoder state st   *)
(* is [i, meta, meta_len, next_id, err, label, labels].                    *)
(***************************************************************************)
\* opcodes.rs 10-194: the values Opcode::try_from accepts.
ValidOpcodes == (0..18) \cup (21..25) \cup (46..58) \cup (79..195) \cup (197..199)

\* lines 2309-2415: the opcodes without operands.
SimpleInsnOpcodes ==
    (0..15) \cup (46..53) \cup (79..131) \cup (133..152) \cup (172..177)
        \cup {190, 191, 194, 195}

\* lines 2439-2449: ILoad..ALoad, IStore..AStore, Ret.
VarInsnOpcodes == (21..25) \cup (54..58) \cup {169}

\* lines 2463-2480: IfEq..IfACmpNe, Goto, Jsr, IfNull, IfNonNull.
JumpInsnOpcodes == (153..168) \cup {198, 199}

\* lines 2240-2250: the opcodes a wide prefix widens to a 16-bit variable index.
WideVarInsnOpcodes == (21..25) \cup (54..58) \cup {169}

FailInsn(st, err) == [st EXCEPT !.err = err]

\* The end of every arm and line 2671: i takes its new value and the event is
\* stored at insn_base.
StoreInsn(st, insn_base, i, event) ==
    [st EXCEPT !.i = i,
               !.meta = MetaPut(st.meta, insn_base,
                                [MetaAt(st.meta, insn_base) EXCEPT !.insn_event = Some(event)])]

\* lines 2273-2304 and 2481-2487: a jump with its branch offset already read.
ReadJumpInsn(st, opcode, branch, width) ==
    LET s1 == LabelAt(st, BranchTarget(st.i, branch)) IN
    IF s1.err # "" THEN s1
    ELSE StoreInsn(s1, st.i, st.i + width,
                   [kind |-> "JumpInsn", opcode |-> opcode, label |-> s1.label])

\* The wide prefix with the operand taken for one byte, as the unprefixed
\* instruction has it.
ReadWideInsnByteOperand(code, st) ==
    LET i == st.i
        next_opcode == CodeByte(code, i + 1)
    IN  IF ~HasCode(code, i + 1) THEN FailInsn(st, "CodeOffsetOutOfBounds")
        ELSE IF next_opcode \notin ValidOpcodes THEN FailInsn(st, "BadOpcode")
        ELSE IF next_opcode \in WideVarInsnOpcodes
        THEN IF ~HasCode(code, i + 3) THEN FailInsn(st, "CodeOffsetOutOfBounds")
             ELSE StoreInsn(st, i, i + 4, [kind |-> "VarInsn", opcode |-> next_opcode,
                                       var_index |-> CodeByte(code, i + 2)])
        ELSE IF next_opcode = 132
        THEN IF ~HasCode(code, i + 5) THEN FailInsn(st, "CodeOffsetOutOfBounds")
             ELSE StoreInsn(st, i, i + 6, [kind |-> "IIncInsn", var_index |-> CodeByte(code, i + 2),
                                       increment |-> I8(CodeByte(code, i + 4))])
        ELSE FailInsn(st, "BadWideOpcode")

\* lines 2235-2272: the wide prefix.
ReadWideInsn(code, st) ==
    LET i == st.i
        next_opcode == CodeByte(code, i + 1)
    IN  IF ~HasCode(code, i + 1) THEN FailInsn(st, "CodeOffsetOutOfBounds")
        ELSE IF next_opcode \notin ValidOpcodes THEN FailInsn(st, "BadOpcode")
        ELSE IF next_opcode \in WideVarInsnOpcodes
        THEN IF ~HasCode(code, i + 3) THEN FailInsn(st, "CodeOffsetOutOfBounds")
             ELSE StoreInsn(st, i, i + 4, [kind |-> "VarInsn", opcode |-> next_opcode,
                                       var_index |-> U16At(code, i + 2)])
        ELSE IF next_opcode = 132
        THEN IF ~HasCode(code, i + 5) THEN FailInsn(st, "CodeOffsetOutOfBounds")
             ELSE StoreInsn(st, i, i + 6, [kind |-> "IIncInsn", var_index |-> U16At(code, i + 2),
                                       increment |-> I16At(code, i + 4)])
        ELSE FailInsn(st, "BadWideOpcode")

\* lines 2520-2532 and 2560-2581: entry idx of a switch whose operands start
\* at the padded offset i; the label (or the value and the label) joins st.labels.
ReadSwitchEntry(code, insn_base, i, opcode, idx, st) ==
    LET at == IF opcode = 170 THEN i + 12 + 4 * idx ELSE i + 8 + 8 * idx
        size == IF opcode = 170 THEN 4 ELSE 8
    IN  IF ~HasCode(code, at + size - 1) THEN FailInsn(st, "CodeOffsetOutOfBounds")
        ELSE LET branch == I32At(code, at + size - 4)
                 s1 == LabelAt(st, BranchTarget(insn_base, branch))
             IN  IF s1.err # "" THEN s1
                 ELSE [s1 EXCEPT !.labels =
                          Append(@, IF opcode = 170 THEN s1.label
                                    ELSE <<I32At(code, at), s1.label>>)]

RECURSIVE ReadSwitchEntries(_, _, _, _, _, _, _)
\* The entries lo..hi-1 in ascending order, stopping at the first error (the
\* `?` inside collect).  The range is halved so that a long table does not
\* nest deeply.
ReadSwitchEntries(code, insn_base, i, opcode, lo, hi, st) ==
    IF st.err # "" \/ lo >= hi THEN st
    ELSE IF hi - lo = 1 THEN ReadSwitchEntry(code, insn_base, i, opcode, lo, st)
    ELSE LET mid == lo + (hi - lo) \div 2 IN
         ReadSwitchEntries(code, insn_base, i, opcode, mid, hi,
                           ReadSwitchEntries(code, insn_base, i, opcode, lo, mid, st))

\* lines 2489-2541: tableswitch.
ReadTableSwitch(code, st) ==
    LET insn_base == st.i
        i == NextMultipleOf4(insn_base + 1)
    IN  IF ~HasCode(code, i + 3) THEN FailInsn(st, "CodeOffsetOutOfBounds")
        ELSE LET s1 == LabelAt(st, BranchTarget(insn_base, I32At(code, i))) IN
        IF s1.err # "" THEN s1
        ELSE IF ~HasCode(code, i + 11) THEN FailInsn(st, "CodeOffsetOutOfBounds")
        ELSE LET low == I32At(code, i + 4)
                 high == I32At(code, i + 8)
             IN
        IF low > high THEN FailInsn(st, "TableSwitchBoundsWrongOrder")
        ELSE LET label_count_m1 == LabelCountM1(low, high)
                 s2 == ReadSwitchEntries(code, insn_base, i, 170, 0, label_count_m1 + 1,
                                         [s1 EXCEPT !.labels = <<>>])
             IN
        IF s2.err # "" THEN s2
        ELSE StoreInsn(s2, insn_base, i + 16 + 4 * label_count_m1,
                       [kind |-> "TableSwitchInsn", dflt |-> s1.label, low |-> low,
                        high |-> high, labels |-> s2.labels])

\* lines 2542-2585: lookupswitch.
ReadLookupSwitch(code, st) ==
    LET insn_base == st.i
        i == NextMultipleOf4(insn_base + 1)
    IN  IF ~HasCode(code, i + 3) THEN FailInsn(st, "CodeOffsetOutOfBounds")
        ELSE LET s1 == LabelAt(st, BranchTarget(insn_base, I32At(code, i))) IN
        IF s1.err # "" THEN s1
        ELSE IF ~HasCode(code, i + 7) THEN FailInsn(st, "CodeOffsetOutOfBounds")
        ELSE LET npairs == U32At(code, i + 4)
                 s2 == ReadSwitchEntries(code, insn_base, i, 171, 0, npairs,
                                         [s1 EXCEPT !.labels = <<>>])
             IN
        IF s2.err # "" THEN s2
        ELSE StoreInsn(s2, insn_base, i + 4 + 8 * npairs,
                       [kind |-> "LookupSwitchInsn", dflt |-> s1.label, values |-> s2.labels])

\* An instruction whose only operand is a constant-pool index checked by cp_err.
ReadCpInsn(code, st, cp_err, width, event) ==
    IF ~HasCode(code, st.i + 2) THEN FailInsn(st, "CodeOffsetOutOfBounds")
    ELSE IF cp_err # "" THEN FailInsn(st, cp_err)
    ELSE StoreInsn(st, st.i, st.i + width, event)

\* lines 2601-2626: the error of the method-ref lookup of an invoke, "" for Ok.
InvokeCpError(cp_index) ==
    LET t == CpGetType(cp_index) IN
    IF t.err # "" THEN t.err
    ELSE IF t.tag = "InterfaceMethodRef" THEN CpExpect(cp_index, "InterfaceMethodRef")
    ELSE CpExpect(cp_index, "MethodRef")

\* lines 2305-2668: the arm of the opcodes of the Opcode enum.
ReadPlainInsn(code, st) ==
    LET i == st.i
        opcode == CodeByte(code, i)
        cp_index == U16At(code, i + 1)
    IN  CASE opcode \in SimpleInsnOpcodes ->
               StoreInsn(st, i, i + 1, [kind |-> "Insn", opcode |-> opcode])
          [] opcode = 16 ->
               IF ~HasCode(code, i + 1) THEN FailInsn(st, "CodeOffsetOutOfBounds")
               ELSE StoreInsn(st, i, i + 2, [kind |-> "BIPushInsn", value |-> I8(CodeByte(code, i + 1))])
          [] opcode = 17 ->
               IF ~HasCode(code, i + 2) THEN FailInsn(st, "CodeOffsetOutOfBounds")
               ELSE StoreInsn(st, i, i + 3, [kind |-> "SIPushInsn", value |-> I16At(code, i + 1)])
          [] opcode = 18 ->
               IF ~HasCode(code, i + 1) THEN FailInsn(st, "CodeOffsetOutOfBounds")
               ELSE IF GetLdcConstant(CodeByte(code, i + 1)) # ""
               THEN FailInsn(st, GetLdcConstant(CodeByte(code, i + 1)))
               ELSE StoreInsn(st, i, i + 2, [kind |-> "LdcInsn", cst_index |-> CodeByte(code, i + 1)])
          [] opcode \in VarInsnOpcodes ->
               IF ~HasCode(code, i + 1) THEN FailInsn(st, "CodeOffsetOutOfBounds")
               ELSE StoreInsn(st, i, i + 2, [kind |-> "VarInsn", opcode |-> opcode,
                                             var_index |-> CodeByte(code, i + 1)])
          [] opcode = 132 ->
               IF ~HasCode(code, i + 2) THEN FailInsn(st, "CodeOffsetOutOfBounds")
               ELSE StoreInsn(st, i, i + 3, [kind |-> "IIncInsn", var_index |-> CodeByte(code, i + 1),
                                             increment |-> I8(CodeByte(code, i + 2))])
          [] opcode \in JumpInsnOpcodes ->
               IF ~HasCode(code, i + 2) THEN FailInsn(st, "CodeOffsetOutOfBounds")
               ELSE ReadJumpInsn(st, opcode, I16At(code, i + 1), 3)
          [] opcode = 170 -> ReadTableSwitch(code, st)
          [] opcode = 171 -> ReadLookupSwitch(code, st)
          [] opcode \in 178..181 ->
               ReadCpInsn(code, st, CpExpect(cp_index, "FieldRef"), 3,
                          [kind |-> "FieldInsn", opcode |-> opcode, cp_index |-> cp_index])
          [] opcode \in 182..185 ->
               ReadCpInsn(code, st, InvokeCpError(cp_index), IF opcode = 185 THEN 5 ELSE 3,
                          [kind |-> "MethodInsn", opcode |-> opcode, cp_index |-> cp_index,
                           is_interface |-> CpGetType(cp_index).tag = "InterfaceMethodRef"])
          [] opcode = 186 ->
               \* the bootstrap-method table is taken to hold the entry the pool names
               ReadCpInsn(code, st, CpExpect(cp_index, "InvokeDynamic"), 5,
                          [kind |-> "InvokeDynamicInsn", cp_index |-> cp_index])
          [] opcode \in {187, 189, 192, 193} ->
               ReadCpInsn(code, st, CpExpect(cp_index, "Class"), 3,
                          [kind |-> "TypeInsn", opcode |-> opcode, cp_index |-> cp_index])
          [] opcode = 188 ->
               IF ~HasCode(code, i + 1) THEN FailInsn(st, "CodeOffsetOutOfBounds")
               ELSE IF CodeByte(code, i + 1) \notin 4..11 THEN FailInsn(st, "BadNewArrayType")
               ELSE StoreInsn(st, i, i + 2, [kind |-> "NewArrayInsn", atype |-> CodeByte(code, i + 1)])
          [] opcode = 197 ->
               IF ~HasCode(code, i + 2) THEN FailInsn(st, "CodeOffsetOutOfBounds")
               ELSE IF CpExpect(cp_index, "Class") # "" THEN FailInsn(st, CpExpect(cp_index, "Class"))
               ELSE IF ~HasCode(code, i + 3) THEN FailInsn(st, "CodeOffsetOutOfBounds")
               ELSE StoreInsn(st, i, i + 4, [kind |-> "MultiANewArrayInsn", cp_index |-> cp_index,
                                             dimensions |-> CodeByte(code, i + 3)])

\* lines 2152-2671: one turn of the loop of read_code, at st.i < code.len.
ReadInsn(code, st) ==
    LET i == st.i
        opcode == CodeByte(code, i)
    IN  CASE opcode \in {19, 20} ->
               IF ~HasCode(code, i + 2) THEN FailInsn(st, "CodeOffsetOutOfBounds")
               ELSE IF GetLdcConstant(U16At(code, i + 1)) # ""
               THEN FailInsn(st, GetLdcConstant(U16At(code, i + 1)))
               ELSE StoreInsn(st, i, i + 3, [kind |-> "LdcInsn", cst_index |-> U16At(code, i + 1)])
          [] opcode \in 26..45 ->
               StoreInsn(st, i, i + 1, [kind |-> "VarInsn", opcode |-> 21 + (opcode - 26) \div 4,
                                        var_index |-> (opcode - 26) % 4])
          [] opcode \in 59..78 ->
               StoreInsn(st, i, i + 1, [kind |-> "VarInsn", opcode |-> 54 + (opcode - 59) \div 4,
                                        var_index |-> (opcode - 59) % 4])
          [] opcode = 196 -> ReadWideInsn(code, st)
          [] opcode \in {200, 201} ->
               IF ~HasCode(code, i + 4) THEN FailInsn(st, "CodeOffsetOutOfBounds")
               ELSE ReadJumpInsn(st, opcode - 33, I32At(code, i + 1), 5)
          [] opcode \notin ValidOpcodes -> FailInsn(st, "BadOpcode")
          [] OTHER -> ReadPlainInsn(code, st)

RECURSIVE ReadCodeLoop(_, _)
\* lines 2150-2674: read_code from offset st.i to its return.
ReadCodeLoop(code, st) ==
    IF st.err # "" \/ st.i >= code.len THEN st
    ELSE ReadCodeLoop(code, ReadInsn(code, st))

\* lines 1949-1952 and 2150: the decoder state on entry of read_code.
ReadCodeStart(code) ==
    [i |-> 0, meta |-> <<>>, meta_len |-> code.len + 1, next_id |-> 0, err |-> "",
     label |-> 0, labels |-> <<>>]

(***************************************************************************)
(* The class-file side of a code array (JVMS 4.7.3, 6.5): instructions     *)
(* with their operands, laid out into bytes.  An instruction is            *)
(*   [form |-> "plain", op, operands]      op followed by its operand bytes*)
(*   [form |-> "jump", op, branch]         a 16-bit branch                 *)
(*   [form |-> "jump_w", op, branch]       goto_w, jsr_w                   *)
(*   [form |-> "wide", op, operands]       wide op with widened operands   *)
(*   [form |-> "tableswitch", dflt, low, branches]                         *)
(*   [form |-> "lookupswitch", dflt, pairs]                                *)
(***************************************************************************)
BE16(v) == LET u == IF v < 0 THEN v + 65536 ELSE v IN <<u \div 256, u % 256>>

BE32(v) ==
    LET w == IF v < 0 THEN (v + 2147483647) + 1 ELSE v
        top == (IF v < 0 THEN 128 ELSE 0) + w \div 16777216
    IN  <<top, (w \div 65536) % 256, (w \div 256) % 256, w % 256>>

\* JVMS 6.5: the number of operand bytes after a plain opcode.
JvmOperandCount(op) ==
    CASE op \in {16, 18, 188, 169} \cup (21..25) \cup (54..58) -> 1
      [] op \in {17, 19, 20, 132, 187, 189, 192, 193, 198, 199}
                \cup (153..168) \cup (178..184) -> 2
      [] op = 197 -> 3
      [] op \in {185, 186, 200, 201} -> 4
      [] OTHER -> 0

\* JVMS 6.5 tableswitch, lookupswitch: the padding after an opcode at offset at.
SwitchPad(at) == 3 - (at % 4)

\* The encoded width of an instruction placed at offset at.
JvmWidth(ins, at) ==
    CASE ins.form = "plain" -> 1 + JvmOperandCount(ins.op)
      [] ins.form = "jump" -> 3
      [] ins.form = "jump_w" -> 5
      [] ins.form = "wide" -> IF ins.op = 132 THEN 6 ELSE 4
      [] ins.form = "tableswitch" -> 1 + SwitchPad(at) + 12 + 4 * Len(ins.branches)
      [] ins.form = "lookupswitch" -> 1 + SwitchPad(at) + 8 + 8 * Len(ins.pairs)

RECURSIVE FlatBE32(_)
FlatBE32(vs) == IF vs = <<>> THEN <<>> ELSE BE32(Head(vs)) \o FlatBE32(Tail(vs))

RECURSIVE FlatPairs(_)
FlatPairs(ps) ==
    IF ps = <<>> THEN <<>>
    ELSE BE32(Head(ps)[1]) \o BE32(Head(ps)[2]) \o FlatPairs(Tail(ps))

\* The bytes of an instruction placed at offset at.
JvmBytes(ins, at) ==
    CASE ins.form = "plain" -> <<ins.op>> \o ins.operands
      [] ins.form = "jump" -> <<ins.op>> \o BE16(ins.branch)
      [] ins.form = "jump_w" -> <<ins.op>> \o BE32(ins.branch)
      [] ins.form = "wide" -> <<196, ins.op>> \o ins.operands
      [] ins.form = "tableswitch" ->
            <<170>> \o [k \in 1..SwitchPad(at) |-> 0] \o BE32(ins.dflt) \o BE32(ins.low)
                \o BE32(ins.low + Len(ins.branches) - 1) \o FlatBE32(ins.branches)
      [] ins.form = "lookupswitch" ->
            <<171>> \o [k \in 1..SwitchPad(at) |-> 0] \o BE32(ins.dflt)
                \o BE32(Len(ins.pairs)) \o FlatPairs(ins.pairs)

RECURSIVE Layout(_, _)
\* The instructions of a program with the offset and width of each.
Layout(program, at) ==
    IF program = <<>> THEN <<>>
    ELSE <<[ins |-> Head(program), at |-> at, width |-> JvmWidth(Head(program), at)]>>
            \o Layout(Tail(program), at + JvmWidth(Head(program), at))

RECURSIVE LayoutBytes(_)
LayoutBytes(layout) ==
    IF layout = <<>> THEN <<>>
    ELSE JvmBytes(Head(layout).ins, Head(layout).at) \o LayoutBytes(Tail(layout))

\* The code array of a laid-out program.
Assemble(layout) == [head |-> LayoutBytes(layout), len |-> Len(LayoutBytes(layout))]

\* Operand bytes that decode without error under ConstantPoolTags.
DefaultOperands(op) ==
    CASE op = 16 -> <<5>>
      [] op = 17 -> <<1, 2>>
      [] op = 18 -> <<1>>
      [] op \in {19, 20} -> <<0, 1>>
      [] op \in (21..25) \cup (54..58) \cup {169} -> <<1>>
      [] op = 132 -> <<1, 255>>
      [] op \in 178..181 -> <<0, 3>>
      [] op \in 182..184 -> <<0, 4>>
      [] op = 185 -> <<0, 5, 1, 0>>
      [] op = 186 -> <<0, 6, 0, 0>>
      [] op \in {187, 189, 192, 193} -> <<0, 2>>
      [] op = 188 -> <<10>>
      [] op = 197 -> <<0, 2, 1>>
      [] OTHER -> <<>>

Plain(op) == [form |-> "plain", op |-> op, operands |-> DefaultOperands(op)]

Jump(op, branch) == [form |-> "jump", op |-> op, branch |-> branch]

JumpW(op, branch) == [form |-> "jump_w", op |-> op, branch |-> branch]

TableSwitch(dflt, low, branches) ==
    [form |-> "tableswitch", dflt |-> dflt, low |-> low, branches |-> branches]

LookupSwitch(dflt, pairs) == [form |-> "lookupswitch", dflt |-> dflt, pairs |-> pairs]

\* One instruction for every opcode byte, 202..255 (no instruction) included.
InsnOfOpcode(op) ==
    CASE op \in JumpInsnOpcodes -> Jump(op, 0)
      [] op \in {200, 201} -> JumpW(op, 0)
      [] op = 196 -> [form |-> "wide", op |-> 21, operands |-> <<1, 0>>]
      [] op = 170 -> TableSwitch(0, 0, <<0>>)
      [] op = 171 -> LookupSwitch(0, <<>>)
      [] OTHER -> Plain(op)

\* The instructions longer programs are made of: every width, branches that
\* land inside and outside the code, switches with and without entries.
SampleInsns ==
    {Plain(0), Plain(16), Plain(17), Plain(185),
     Jump(167, 3), Jump(153, -3), Jump(198, 200),
     JumpW(200, 5), JumpW(201, -70000),
     [form |-> "wide", op |-> 54, operands |-> <<1, 0>>],
     [form |-> "wide", op |-> 132, operands |-> <<1, 0, 255, 255>>],
     TableSwitch(0, 1, <<0, 16>>), TableSwitch(16, -1, <<-40>>),
     LookupSwitch(0, <<>>), LookupSwitch(12, <<<<7, 0>>>>), LookupSwitch(0, <<<<7, -1>>>>)}

(***************************************************************************)
(* The decoder run on assembled programs.                                  *)
(***************************************************************************)
\* The wide prefix before the byte op, with a variable index of 258 and, for
\* iinc, an increment of -2.
WideOf(op) ==
    [form |-> "wide", op |-> op,
     operands |-> IF op = 132 THEN <<1, 2, 255, 254>> ELSE <<1, 2>>]

Programs ==
    {<<InsnOfOpcode(op)>> : op \in 0..255} \cup {<<WideOf(op)>> : op \in 0..255}
        \cup SeqsOver(SampleInsns, 1..MaxInsns)

InitCode ==
    /\ \E program \in Programs : rc_program = Layout(program, 0)
    /\ rc_code = Assemble(rc_program)
    /\ rc_st = ReadCodeStart(rc_code)
    /\ rc_done = FALSE
    /\ RcRest

\* lines 2151-2672: one turn of the loop decodes the instruction at i.
ReadCodeStep ==
    /\ ~rc_done
    /\ rc_st.err = ""
    /\ rc_st.i < rc_code.len
    /\ rc_st' = ReadInsn(rc_code, rc_st)
    /\ UNCHANGED <<rc_program, rc_code, rc_done, rcOthers>>

\* a `?` or `return Err` of the loop body: read_code returns the error.
ReadCodeErr ==
    /\ ~rc_done
    /\ rc_st.err # ""
    /\ rc_done' = TRUE
    /\ UNCHANGED <<rc_program, rc_code, rc_st, rcOthers>>

\* line 2674: the loop is over, read_code returns Ok(()).
ReadCodeOk ==
    /\ ~rc_done
    /\ rc_st.err = ""
    /\ rc_st.i >= rc_code.len
    /\ rc_done' = TRUE
    /\ UNCHANGED <<rc_program, rc_code, rc_st, rcOthers>>

NextCode ==
    \/ ReadCodeStep
    \/ ReadCodeErr
    \/ ReadCodeOk

SpecCode == InitCode /\ [][NextCode]_vars

\* The offsets at which read_code has stored an instruction event.
StoredOffsets(meta) == {o \in DOMAIN meta : meta[o].insn_event # None}

\* C6: a successfully decoded code array has its instruction events exactly at
\* the offsets of its instructions: 0, then each offset plus the encoded width
\* of the instruction there.
C6_OffsetsFollowWidths ==
    (rc_done /\ rc_st.err = "") =>
        StoredOffsets(rc_st.meta) = {rc_program[k].at : k \in DOMAIN rc_program}

\* The opcodes a wide prefix may stand before: iload, lload, fload, dload,
\* aload, istore, lstore, fstore, dstore, astore, ret and iinc.
WideAllowed == {21, 22, 23, 24, 25, 54, 55, 56, 57, 58, 169, 132}

\* The first instruction of the program is a wide prefix and the decoder has
\* been over it.
WideDecoded ==
    /\ rc_program # <<>>
    /\ rc_program[1].ins.form = "wide"
    /\ (rc_st.i # 0 \/ rc_st.err # "")

\* The allowed opcodes after a wide prefix decode with a 16-bit variable index
\* and, for iinc, a signed 16-bit increment.
WideOperands ==
    LET ins == rc_program[1].ins
        index == ins.operands[1] * 256 + ins.operands[2]
    IN  /\ ins.op \in WideAllowed \ {132} =>
              /\ rc_st.i >= rc_program[1].width
              /\ MetaAt(rc_st.meta, 0).insn_event =
                     Some([kind |-> "VarInsn", opcode |-> ins.op, var_index |-> index])
        /\ ins.op = 132 =>
              /\ rc_st.i >= rc_program[1].width
              /\ MetaAt(rc_st.meta, 0).insn_event =
                     Some([kind |-> "IIncInsn", var_index |-> index,
                           increment |-> ins.operands[3] * 256 + ins.operands[4] - 65536])

\* C25 as stated: after a wide prefix every opcode byte of the JVM (0..201)
\* outside the allowed set fails with BadWideOpcode, and the allowed ones read
\* 16-bit operands.
C25_WideOutsideAllowedIsBadWideOpcode ==
    WideDecoded =>
        /\ WideOperands
        /\ rc_program[1].ins.op \in (0..201) \ WideAllowed => rc_st.err = "BadWideOpcode"

\* C25: after a wide prefix a byte that is a value of Opcode outside the
\* allowed set fails with BadWideOpcode, a byte that is no value of Opcode
\* (ldc_w, iload_0, wide, goto_w, 202 and the like) fails with BadOpcode, and
\* the allowed opcodes read a 16-bit index (iinc a signed 16-bit increment too).
C25_WideOpcodes ==
    WideDecoded =>
        /\ WideOperands
        /\ rc_program[1].ins.op \in ValidOpcodes \ WideAllowed => rc_st.err = "BadWideOpcode"
        /\ rc_program[1].ins.op \notin ValidOpcodes => rc_st.err = "BadOpcode"

C25_Witness ==
    /\ WideDecoded
    /\ rc_done
    /\ rc_program[1].ins.op = 0
    /\ rc_st.err = "BadWideOpcode"

\* The branch offsets an instruction carries.
BranchesOf(ins) ==
    CASE ins.form \in {"jump", "jump_w"} -> {ins.branch}
      [] ins.form = "tableswitch" ->
            {ins.dflt} \cup {ins.branches[j] : j \in DOMAIN ins.branches}
      [] ins.form = "lookupswitch" ->
            {ins.dflt} \cup {ins.pairs[j][2] : j \in DOMAIN ins.pairs}
      [] OTHER -> {}

\* The event decoded for the instruction e carries, for each of its branch
\* offsets, the label stored at e.at plus that offset.
CarriesTargetLabels(e, event, meta) ==
    LET L(branch) == MetaAt(meta, e.at + branch).label IN
    CASE e.ins.form \in {"jump", "jump_w"} ->
            /\ event.kind = "JumpInsn"
            /\ L(e.ins.branch) = Some(event.label)
      [] e.ins.form = "tableswitch" ->
            /\ event.kind = "TableSwitchInsn"
            /\ L(e.ins.dflt) = Some(event.dflt)
            /\ Len(event.labels) = Len(e.ins.branches)
            /\ \A j \in DOMAIN e.ins.branches : L(e.ins.branches[j]) = Some(event.labels[j])
      [] e.ins.form = "lookupswitch" ->
            /\ event.kind = "LookupSwitchInsn"
            /\ L(e.ins.dflt) = Some(event.dflt)
            /\ Len(event.values) = Len(e.ins.pairs)
            /\ \A j \in DOMAIN e.ins.pairs :
                  /\ event.values[j][1] = e.ins.pairs[j][1]
                  /\ L(e.ins.pairs[j][2]) = Some(event.values[j][2])

\* C7: the event of a decoded branch or switch carries the labels stored at
\* (offset of its opcode + signed branch offset), all within 0..=code_length;
\* and decoding stops at a branch or switch exactly when one of its targets is
\* outside 0..=code_length, with CodeOffsetOutOfBounds.
C7_BranchTargets ==
    \A k \in DOMAIN rc_program :
        LET e == rc_program[k]
            targets == {e.at + b : b \in BranchesOf(e.ins)}
            m == MetaAt(rc_st.meta, e.at)
        IN  BranchesOf(e.ins) # {} =>
              /\ m.insn_event # None =>
                    /\ targets \subseteq 0..rc_code.len
                    /\ CarriesTargetLabels(e, m.insn_event[1], rc_st.meta)
              /\ (rc_st.err # "" /\ rc_st.i = e.at) =>
                    /\ rc_st.err = "CodeOffsetOutOfBounds"
                    /\ ~(targets \subseteq 0..rc_code.len)

\* A table switch and a backward 16-bit branch, both decoded.
C7_Witness ==
    /\ rc_done
    /\ rc_st.err = ""
    /\ Len(rc_program) = 2
    /\ rc_program[1].ins.form = "tableswitch"
    /\ rc_program[2].ins.form = "jump"
    /\ rc_program[2].ins.branch < 0

(***************************************************************************)
(* CodeData::read.  A Code attribute is                                    *)
(*   [max_stack, max_locals, code, exception_table, attributes]            *)
(* with each table given by its entries; an attribute of the code is       *)
(*   [name |-> "LineNumberTable", entries |-> <<[start_pc, line_number]>>] *)
(*   [name |-> "LocalVariableTable", entries |-> <<[start_pc, length, index]>>]     *)
(*   [name |-> "LocalVariableTypeTable", entries |-> <<[start_pc, index, signature]>>] *)
(*   [name |-> "StackMapTable", entries |-> <<[offset_delta, values]>>]    *)
(*   [name |-> "RuntimeVisibleTypeAnnotations", entries |-> <<[loc, ...]>>]*)
(*   [name |-> "Custom"]                                                   *)
(* The reader state cd is the decoder state joined by the lists CodeData   *)
(* is built from.                                                          *)
(***************************************************************************)
RECURSIVE ReadExceptionTable(_, _)
\* lines 1966-1994.
ReadExceptionTable(entries, cd) ==
    IF cd.err # "" \/ entries = <<>> THEN cd
    ELSE LET e == Head(entries)
             s1 == LabelAt(cd, e.start_pc)
             s2 == LabelAt(s1, e.end_pc)
             s3 == LabelAt(s2, e.handler_pc)
         IN  IF s3.err # "" THEN s3
             ELSE ReadExceptionTable(Tail(entries),
                     [s3 EXCEPT !.try_catch_blocks =
                         Append(@, [start |-> s1.label, end |-> s2.label, handler |-> s3.label])])

RECURSIVE ReadLineNumbers(_, _)

\* A LineNumberTable read without get_or_create_label: the line numbers are
\* set and no label is made for them.
ReadLineNumbersUnlabelled(entries, cd) ==
    LET after[n \in 0..Len(entries)] ==
            IF n = 0 \/ cd.err # "" THEN cd
            ELSE IF after[n - 1].err # "" THEN after[n - 1]
            ELSE IF LabelAt(after[n - 1], entries[n].start_pc).err # ""
            THEN LabelAt(after[n - 1], entries[n].start_pc)
            ELSE [after[n - 1] EXCEPT !.meta =
                    MetaPut(after[n - 1].meta, entries[n].start_pc,
                            [MetaAt(after[n - 1].meta, entries[n].start_pc) EXCEPT
                                !.line_number = Some(entries[n].line_number)])]
    IN  after[Len(entries)]

\* lines 2018-2026.
ReadLineNumbers(entries, cd) ==
    IF cd.err # "" \/ entries = <<>> THEN cd
    ELSE LET e == Head(entries)
             s1 == LabelAt(cd, e.start_pc)
         IN  IF s1.err # "" THEN s1
             ELSE ReadLineNumbers(Tail(entries),
                     [s1 EXCEPT !.meta = MetaPut(s1.meta, e.start_pc,
                         [MetaAt(s1.meta, e.start_pc) EXCEPT !.line_number = Some(e.line_number)])])

RECURSIVE ReadLocalVariables(_, _)
\* lines 2031-2059.
ReadLocalVariables(entries, cd) ==
    IF cd.err # "" \/ entries = <<>> THEN cd
    ELSE LET e == Head(entries)
             s1 == LabelAt(cd, e.start_pc)
             s2 == LabelAt(s1, e.start_pc + e.length)
         IN  IF s2.err # "" THEN s2
             ELSE ReadLocalVariables(Tail(entries),
                     [s2 EXCEPT !.lvt = Append(@, [start |-> s1.label, end |-> s2.label,
                                                   index |-> e.index, signature |-> None])])

RECURSIVE ReadRanges(_, _)
\* lines 2738-2751: the ranges of one local-variable type annotation, joined to cd.labels.
ReadRanges(ranges, cd) ==
    IF cd.err # "" \/ ranges = <<>> THEN cd
    ELSE LET r == Head(ranges)
             s1 == LabelAt(cd, r.start_pc)
             s2 == LabelAt(s1, r.start_pc + r.length)
         IN  IF s2.err # "" THEN s2
             ELSE ReadRanges(Tail(ranges),
                     [s2 EXCEPT !.labels = Append(@, <<s1.label, s2.label, r.index>>)])

RECURSIVE ReadCodeAnnotations(_, _, _)
\* lines 2710-2768.
ReadCodeAnnotations(entries, visible, cd) ==
    IF cd.err # "" \/ entries = <<>> THEN cd
    ELSE LET a == Head(entries) IN
         ReadCodeAnnotations(Tail(entries), visible,
            CASE a.loc = "Insn" ->
                   IF a.pc >= cd.meta_len THEN [cd EXCEPT !.err = "CodeOffsetOutOfBounds"]
                   ELSE [cd EXCEPT !.meta = MetaPut(cd.meta, a.pc,
                            [MetaAt(cd.meta, a.pc) EXCEPT !.annotations =
                                Append(@, [visible |-> visible])])]
              [] a.loc = "LocalVariable" ->
                   LET s1 == ReadRanges(a.ranges, [cd EXCEPT !.labels = <<>>]) IN
                   IF s1.err # "" THEN s1
                   ELSE [s1 EXCEPT !.local_variable_annotations =
                            Append(@, [ranges |-> s1.labels, visible |-> visible])]
              [] a.loc = "TryCatchBlock" ->
                   [cd EXCEPT !.try_catch_block_annotations =
                       Append(@, [try_catch_block_index |-> a.index])]
              [] OTHER -> cd)

RECURSIVE ReadCodeAttributes(_, _, _, _)
\* lines 2007-2094: the attributes of the code, the k-th at offset k.
ReadCodeAttributes(attributes, k, flags, cd) ==
    IF cd.err # "" \/ k > Len(attributes) THEN cd
    ELSE LET a == attributes[k] IN
         ReadCodeAttributes(attributes, k + 1, flags,
            CASE a.name = "LineNumberTable" ->
                   IF "SkipDebug" \in flags THEN cd ELSE ReadLineNumbers(a.entries, cd)
              [] a.name = "LocalVariableTable" ->
                   IF "SkipDebug" \in flags THEN cd ELSE ReadLocalVariables(a.entries, cd)
              [] a.name = "LocalVariableTypeTable" ->
                   [cd EXCEPT !.lvtt_offsets = Append(@, k)]
              [] a.name \in {"StackMap", "StackMapTable"} -> [cd EXCEPT !.stack_map_table_offset = k]
              [] a.name = "RuntimeInvisibleTypeAnnotations" ->
                   ReadCodeAnnotations(a.entries, FALSE, cd)
              [] a.name = "RuntimeVisibleTypeAnnotations" ->
                   ReadCodeAnnotations(a.entries, TRUE, cd)
              [] OTHER -> [cd EXCEPT !.custom_attribute_offsets = Append(@, k)])

\* lines 2107-2112: the first lvt entry with this start label and index takes the signature.
SetSignature(lvt, start, index, signature) ==
    LET hits == {j \in DOMAIN lvt : lvt[j].start = start /\ lvt[j].index = index} IN
    IF hits = {} THEN lvt
    ELSE LET first == CHOOSE j \in hits : \A h \in hits : j <= h IN
         [lvt EXCEPT ![first].signature = Some(signature)]

RECURSIVE ReadLvttEntries(_, _)
\* lines 2099-2114.
ReadLvttEntries(entries, cd) ==
    IF cd.err # "" \/ entries = <<>> THEN cd
    ELSE LET e == Head(entries) IN
         IF e.start_pc >= cd.meta_len THEN [cd EXCEPT !.err = "CodeOffsetOutOfBounds"]
         ELSE LET label == MetaAt(cd.meta, e.start_pc).label IN
              ReadLvttEntries(Tail(entries),
                 IF label = None THEN cd
                 ELSE [cd EXCEPT !.lvt = SetSignature(@, label[1], e.index, e.signature)])

RECURSIVE ReadLvtt(_, _, _)
\* lines 2096-2116: the LocalVariableTypeTable attributes, in the order met.
ReadLvtt(attributes, offsets, cd) ==
    IF cd.err # "" \/ offsets = <<>> THEN cd
    ELSE ReadLvtt(attributes, Tail(offsets), ReadLvttEntries(attributes[Head(offsets)].entries, cd))

RECURSIVE ReadFrameValues(_, _)
\* lines 2878-2913, for the values of one frame; the decoded values join cd.labels.
ReadFrameValues(values, cd) ==
    IF cd.err # "" \/ values = <<>> THEN cd
    ELSE LET v == Head(values) IN
         ReadFrameValues(Tail(values),
            CASE v.tag \in 0..7 -> [cd EXCEPT !.labels = Append(@, [tag |-> v.tag])]
              [] v.tag = 8 ->
                   LET s1 == LabelAt(cd, v.offset) IN
                   IF s1.err # "" THEN s1
                   ELSE [s1 EXCEPT !.labels = Append(@, [tag |-> 8, label |-> s1.label])]
              [] OTHER -> [cd EXCEPT !.err = "BadFrameValueTag"])

RECURSIVE ReadFrames(_, _, _)
\* lines 2782-2873: last_code_offset is None (<<>>) before the first frame.
ReadFrames(frames, last_code_offset, cd) ==
    IF cd.err # "" \/ frames = <<>> THEN cd
    ELSE LET f == Head(frames)
             s1 == ReadFrameValues(f.values, [cd EXCEPT !.labels = <<>>])
             code_offset == IF last_code_offset = None THEN f.offset_delta
                            ELSE last_code_offset[1] + f.offset_delta + 1
         IN  IF s1.err # "" THEN s1
             ELSE IF code_offset >= s1.meta_len THEN [s1 EXCEPT !.err = "CodeOffsetOutOfBounds"]
             ELSE ReadFrames(Tail(frames), Some(code_offset),
                     [s1 EXCEPT !.meta = MetaPut(s1.meta, code_offset,
                         [MetaAt(s1.meta, code_offset) EXCEPT !.frame = Some([values |-> s1.labels])])])

\* The largest code_length CodeData::read accepts (line 1942).
MaxCodeLength == 65535

\* lines 1962-2005: the lists of CodeData, empty, beside what read_code has left.
CodeDataAfterReadCode(attr, st) ==
    [err |-> st.err, meta |-> st.meta, meta_len |-> st.meta_len,
     next_id |-> st.next_id, label |-> st.label, labels |-> <<>>,
     max_stack |-> attr.max_stack, max_locals |-> attr.max_locals,
     try_catch_blocks |-> <<>>, try_catch_block_annotations |-> <<>>,
     lvt |-> <<>>, local_variable_annotations |-> <<>>,
     custom_attribute_offsets |-> <<>>,
     lvtt_offsets |-> <<>>, stack_map_table_offset |-> 0]

\* The LocalVariableTypeTable attributes never applied to the lvt.
ReadLvttNever(attributes, flags, cd) == cd

\* lines 2096-2116.
ReadLvttUnlessSkipped(attributes, flags, cd) ==
    IF "SkipDebug" \in flags THEN cd ELSE ReadLvtt(attributes, cd.lvtt_offsets, cd)

\* The frames read whatever the flags are.
ReadFramesWhateverFlags(attributes, flags, cd) ==
    IF cd.err = "" /\ cd.stack_map_table_offset # 0
    THEN ReadFrames(attributes[cd.stack_map_table_offset].entries, None, cd)
    ELSE cd

\* lines 2118-2128.
ReadFramesUnlessSkipped(attributes, flags, cd) ==
    IF cd.err = "" /\ "SkipFrames" \notin flags /\ cd.stack_map_table_offset # 0
    THEN ReadFrames(attributes[cd.stack_map_table_offset].entries, None, cd)
    ELSE cd

\* lines 1928-2141: CodeData::read of a Code attribute under the reader's
\* flags.  The result carries err ("" for Ok) and the fields of CodeData; the
\* label creator is its next_id.
CodeDataRead(attr, flags) ==
    IF attr.code.len = 0 \/ attr.code.len > MaxCodeLength
    THEN [err |-> "BadCodeSize"]
    ELSE ReadFramesUnlessSkipped(attr.attributes, flags,
            ReadLvttUnlessSkipped(attr.attributes, flags,
               ReadCodeAttributes(attr.attributes, 1, flags,
                  ReadExceptionTable(attr.exception_table,
                     CodeDataAfterReadCode(attr,
                        ReadCodeLoop(attr.code, ReadCodeStart(attr.code)))))))

(***************************************************************************)
(* CodeData::read run on Code attributes with tables that refer to code    *)
(* offsets inside and outside the code.                                    *)
(***************************************************************************)
CodePrograms ==
    {<<Jump(167, 3), Plain(0), Plain(177)>>,
     <<TableSwitch(5, 1, <<3, 0>>), Plain(177)>>,
     <<Jump(198, 200)>>}

Pcs(start_pc, end_pc, handler_pc) ==
    [start_pc |-> start_pc, end_pc |-> end_pc, handler_pc |-> handler_pc]

ExceptionTables ==
    {<<>>, <<Pcs(0, 3, 3)>>, <<Pcs(0, 5, 1), Pcs(1, 3, 0)>>, <<Pcs(1, 3, 70)>>}

Range(start_pc, length, index) == [start_pc |-> start_pc, length |-> length, index |-> index]

FrameValue(tag, offset) == [tag |-> tag, offset |-> offset]

LineNumbers ==
    [name |-> "LineNumberTable",
     entries |-> <<[start_pc |-> 0, line_number |-> 1], [start_pc |-> 3, line_number |-> 2]>>]

LocalVariables == [name |-> "LocalVariableTable", entries |-> <<Range(0, 3, 1), Range(1, 4, 2)>>]

LocalVariableTypes ==
    [name |-> "LocalVariableTypeTable",
     entries |-> <<[start_pc |-> 0, index |-> 1, signature |-> 1],
                   [start_pc |-> 2, index |-> 2, signature |-> 2]>>]

StackMap ==
    [name |-> "StackMapTable",
     entries |-> <<[offset_delta |-> 0, values |-> <<FrameValue(8, 3), FrameValue(1, 0)>>],
                   [offset_delta |-> 2, values |-> <<FrameValue(8, 0), FrameValue(7, 0)>>]>>]

VisibleTypeAnnotations ==
    [name |-> "RuntimeVisibleTypeAnnotations",
     entries |-> <<[loc |-> "LocalVariable", ranges |-> <<Range(0, 3, 1), Range(3, 2, 0)>>],
                   [loc |-> "Insn", pc |-> 0],
                   [loc |-> "TryCatchBlock", index |-> 0]>>]

InvisibleTypeAnnotations ==
    [name |-> "RuntimeInvisibleTypeAnnotations",
     entries |-> <<[loc |-> "LocalVariable", ranges |-> <<Range(1, 0, 3)>>]>>]

CodeAttributes ==
    {LineNumbers, LocalVariables, LocalVariableTypes, StackMap,
     VisibleTypeAnnotations, InvisibleTypeAnnotations,
     [name |-> "LocalVariableTable", entries |-> <<Range(3, 70, 1)>>],
     [name |-> "StackMapTable",
      entries |-> <<[offset_delta |-> 1, values |-> <<FrameValue(9, 0)>>]>>],
     [name |-> "Custom"]}

ReaderFlagSets == SUBSET {"SkipDebug", "SkipFrames"}

InitCodeData ==
    /\ \E program \in CodePrograms : cd_program = Layout(program, 0)
    /\ \E exception_table \in ExceptionTables,
          attributes \in SeqsOver(CodeAttributes, 0..MaxCodeAttrs) :
            cd_attr = [max_stack |-> 2, max_locals |-> 3, code |-> Assemble(cd_program),
                       exception_table |-> exception_table, attributes |-> attributes]
    /\ cd_flags \in ReaderFlagSets
    /\ cd_result = [err |-> ""]
    /\ cd_done = FALSE
    /\ CdRest

\* lines 1928-2141: CodeData::read, from its call to its return.
ReadCodeData ==
    /\ ~cd_done
    /\ cd_result' = CodeDataRead(cd_attr, cd_flags)
    /\ cd_done' = TRUE
    /\ UNCHANGED <<cd_program, cd_attr, cd_flags, cdOthers>>

NextCodeData == ReadCodeData

SpecCodeData == InitCodeData /\ [][NextCodeData]_vars

RECURSIVE EntriesOf(_, _)
\* The entries of the attributes with one of the names, in class-file order.
EntriesOf(attributes, names) ==
    IF attributes = <<>> THEN <<>>
    ELSE (IF Head(attributes).name \in names THEN Head(attributes).entries ELSE <<>>)
            \o EntriesOf(Tail(attributes), names)

RECURSIVE FrameOffset(_, _)
\* JVMS 4.7.4: the code offset of the j-th frame of a stack map table.
FrameOffset(frames, j) ==
    IF j = 1 THEN frames[1].offset_delta
    ELSE FrameOffset(frames, j - 1) + frames[j].offset_delta + 1

\* The label an entry of insn_metadata holds, -1 for none.
LabelOr(meta, o) == IF MetaAt(meta, o).label = None THEN -1 ELSE MetaAt(meta, o).label[1]

\* Every reference to a code offset that the class file of the method makes
\* and CodeData::read has resolved, as <<offset referred to, Label carried>>.
BranchReferences(layout, cd) ==
    UNION {LET e == layout[k]
               m == MetaAt(cd.meta, e.at)
               ev == m.insn_event[1]
           IN  IF m.insn_event = None THEN {}
               ELSE CASE e.ins.form \in {"jump", "jump_w"} -> {<<e.at + e.ins.branch, ev.label>>}
                      [] e.ins.form = "tableswitch" ->
                            {<<e.at + e.ins.dflt, ev.dflt>>} \cup
                            {<<e.at + e.ins.branches[j], ev.labels[j]>> : j \in DOMAIN ev.labels}
                      [] e.ins.form = "lookupswitch" ->
                            {<<e.at + e.ins.dflt, ev.dflt>>} \cup
                            {<<e.at + e.ins.pairs[j][2], ev.values[j][2]>> : j \in DOMAIN ev.values}
                      [] OTHER -> {}
           : k \in DOMAIN layout}

TryCatchReferences(attr, cd) ==
    UNION {{<<attr.exception_table[j].start_pc, cd.try_catch_blocks[j].start>>,
            <<attr.exception_table[j].end_pc, cd.try_catch_blocks[j].end>>,
            <<attr.exception_table[j].handler_pc, cd.try_catch_blocks[j].handler>>}
           : j \in DOMAIN cd.try_catch_blocks}

\* MethodEvent::LineNumber carries the label of the entry its line number is stored in.
LineNumberReferences(attr, flags, cd) ==
    IF "SkipDebug" \in flags THEN {}
    ELSE LET entries == EntriesOf(attr.attributes, {"LineNumberTable"}) IN
         {<<entries[j].start_pc, LabelOr(cd.meta, entries[j].start_pc)>> : j \in DOMAIN entries}

LocalVariableReferences(attr, cd) ==
    LET entries == EntriesOf(attr.attributes, {"LocalVariableTable"}) IN
    UNION {{<<entries[j].start_pc, cd.lvt[j].start>>,
            <<entries[j].start_pc + entries[j].length, cd.lvt[j].end>>}
           : j \in DOMAIN cd.lvt}

FrameReferences(attr, flags, cd) ==
    LET tables == SelectSeq(attr.attributes, LAMBDA a : a.name \in {"StackMap", "StackMapTable"}) IN
    IF "SkipFrames" \in flags \/ tables = <<>> THEN {}
    ELSE LET frames == tables[Len(tables)].entries IN
         UNION {LET frame == MetaAt(cd.meta, FrameOffset(frames, j)).frame IN
                IF frame = None THEN {<<-1, -1>>}
                ELSE {<<frames[j].values[v].offset, frame[1].values[v].label>>
                        : v \in {w \in DOMAIN frames[j].values : frames[j].values[w].tag = 8}}
                : j \in DOMAIN frames}

AnnotationRangeReferences(attr, cd) ==
    LET entries == SelectSeq(EntriesOf(attr.attributes, {"RuntimeVisibleTypeAnnotations",
                                                         "RuntimeInvisibleTypeAnnotations"}),
                             LAMBDA a : a.loc = "LocalVariable")
    IN  UNION {UNION {{<<entries[j].ranges[r].start_pc,
                         cd.local_variable_annotations[j].ranges[r][1]>>,
                       <<entries[j].ranges[r].start_pc + entries[j].ranges[r].length,
                         cd.local_variable_annotations[j].ranges[r][2]>>}
                      : r \in DOMAIN entries[j].ranges}
               : j \in DOMAIN cd.local_variable_annotations}

References(layout, attr, flags, cd) ==
    BranchReferences(layout, cd) \cup TryCatchReferences(attr, cd)
        \cup LineNumberReferences(attr, flags, cd) \cup LocalVariableReferences(attr, cd)
        \cup FrameReferences(attr, flags, cd) \cup AnnotationRangeReferences(attr, cd)

\* C8: within one method every reference to a code offset (branch or switch
\* target, try/catch start, end and handler, line-number start, local-variable
\* start and end, Uninitialized frame value, local-variable type-annotation
\* range) carries a Label; references to the same offset carry the same Label
\* and references to different offsets carry different Labels.
C8_OneLabelPerOffset ==
    (cd_done /\ cd_result.err = "") =>
        LET refs == References(cd_program, cd_attr, cd_flags, cd_result) IN
        \A r1, r2 \in refs :
            /\ r1[2] >= 0
            /\ (r1[1] = r2[1]) <=> (r1[2] = r2[2])

\* A read that succeeded with a branch, a try/catch block, a line number, a
\* local variable, an Uninitialized frame value and an annotation range, some
\* of them on one offset and some on different ones.
C8_Witness ==
    /\ cd_done
    /\ cd_result.err = ""
    /\ BranchReferences(cd_program, cd_result) # {}
    /\ TryCatchReferences(cd_attr, cd_result) # {}
    /\ \/ /\ LineNumberReferences(cd_attr, cd_flags, cd_result) # {}
          /\ LocalVariableReferences(cd_attr, cd_result) # {}
       \/ /\ FrameReferences(cd_attr, cd_flags, cd_result) # {}
          /\ AnnotationRangeReferences(cd_attr, cd_result) # {}
    /\ LET refs == References(cd_program, cd_attr, cd_flags, cd_result) IN
       /\ Cardinality({r[1] : r \in refs}) >= 3
       /\ Cardinality(refs) >= 3

\* The Code attribute with its attributes put in another order, or some left out.
WithAttributes(attr, attributes) == [attr EXCEPT !.attributes = attributes]

IsLvtt(a) == a.name = "LocalVariableTypeTable"

WithoutLvtt(attr) ==
    WithAttributes(attr, SelectSeq(attr.attributes, LAMBDA a : ~IsLvtt(a)))

LvttFirst(attr) ==
    WithAttributes(attr, SelectSeq(attr.attributes, IsLvtt)
                            \o SelectSeq(attr.attributes, LAMBDA a : ~IsLvtt(a)))

LvttLast(attr) ==
    WithAttributes(attr, SelectSeq(attr.attributes, LAMBDA a : ~IsLvtt(a))
                            \o SelectSeq(attr.attributes, IsLvtt))

\* The signatures of the LocalVariableTypeTable entries whose start_pc holds
\* the label `start` and whose index is `index`.
SignaturesFor(types, meta, start, index) ==
    {types[t].signature :
        t \in {u \in DOMAIN types : /\ MetaAt(meta, types[u].start_pc).label = Some(start)
                                    /\ types[u].index = index}}

\* C33: with SkipDebug off, the LocalVariables entry with the start label and
\* the index of a LocalVariableTypeTable entry (the first such entry, should
\* the table name one variable twice) has the signature of that entry, and
\* every other entry has signature None; the lvt has one entry per
\* LocalVariableTable entry; the LocalVariableTypeTable attributes create no
\* label and no entry (without them the labels and the lvt but for the
\* signatures are the same); and the lvt is the same with these attributes
\* put before or after all others.
C33_LvttSetsSignatures ==
    (cd_done /\ cd_result.err = "" /\ "SkipDebug" \notin cd_flags) =>
        LET lvt == cd_result.lvt
            declared == EntriesOf(cd_attr.attributes, {"LocalVariableTable"})
            types == EntriesOf(cd_attr.attributes, {"LocalVariableTypeTable"})
            plain == CodeDataRead(WithoutLvtt(cd_attr), cd_flags)
        IN  /\ Len(lvt) = Len(declared)
            /\ \A j \in DOMAIN lvt :
                  LET sigs == SignaturesFor(types, cd_result.meta, lvt[j].start, lvt[j].index)
                      first == \A i \in 1..(j - 1) :
                                  lvt[i].start # lvt[j].start \/ lvt[i].index # lvt[j].index
                  IN  IF sigs = {} \/ ~first THEN lvt[j].signature = None
                      ELSE lvt[j].signature \in {Some(s) : s \in sigs}
            /\ plain.err = ""
            /\ plain.meta = cd_result.meta
            /\ plain.next_id = cd_result.next_id
            /\ plain.lvt = [j \in DOMAIN lvt |-> [lvt[j] EXCEPT !.signature = None]]
            /\ CodeDataRead(LvttFirst(cd_attr), cd_flags).lvt = lvt
            /\ CodeDataRead(LvttLast(cd_attr), cd_flags).lvt = lvt

\* A LocalVariableTypeTable read before the LocalVariableTable it names: one
\* entry has taken its signature, the other has none, and the entry of the
\* type table at an offset without label has left no label there.
C33_Witness ==
    /\ cd_done
    /\ cd_result.err = ""
    /\ "SkipDebug" \notin cd_flags
    /\ cd_attr.attributes = <<LocalVariableTypes, LocalVariables>>
    /\ cd_result.lvt[1].signature = Some(1)
    /\ cd_result.lvt[2].signature = None
    /\ MetaAt(cd_result.meta, 2).label = None

(***************************************************************************)
(* ClassMethodsIterator and MethodReaderEvents.  A method is the sequence  *)
(* of its attributes; the k-th attribute stands at offset k, so that an    *)
(* offset of 0 is "no such attribute" as in the source.  An attribute is   *)
(* [name, ok], ok = FALSE for one whose content ends before it is          *)
(* complete; a Code attribute carries its content as `code`.               *)
(***************************************************************************)
\* lines 1413-1435 before the attribute scan: the fields of MethodReaderEvents.
NewMethodReaderEvents ==
    [annotation_default_offset |-> 0, code_offset |-> 0,
     invisible_annotations_offset |-> 0, invisible_parameter_annotations_offset |-> 0,
     invisible_type_annotations_offset |-> 0, is_deprecated |-> FALSE,
     parameters_offset |-> 0, visible_annotations_offset |-> 0,
     visible_parameter_annotations_offset |-> 0, visible_type_annotations_offset |-> 0,
     custom_attribute_offsets |-> <<>>, code_data |-> None, state |-> 0, code_index |-> 0,
     err |-> ""]

\* lines 1338-1404: one turn of the attribute loop of ClassMethodsIterator::event.
ScanMethodAttribute(ev, a, k, flags) ==
    LET Counted(s) == IF a.ok THEN s ELSE [ev EXCEPT !.err = "OutOfBounds"] IN
    CASE a.name = "AnnotationDefault" -> [ev EXCEPT !.annotation_default_offset = k]
      [] a.name = "Code" ->
            IF "SkipCode" \in flags THEN ev ELSE [ev EXCEPT !.code_offset = k]
      [] a.name = "Deprecated" -> [ev EXCEPT !.is_deprecated = TRUE]
      [] a.name \in {"Exceptions", "Signature"} -> Counted(ev)
      [] a.name = "MethodParameters" ->
            IF "SkipDebug" \in flags THEN ev ELSE Counted([ev EXCEPT !.parameters_offset = k])
      [] a.name = "RuntimeInvisibleAnnotations" ->
            Counted([ev EXCEPT !.invisible_annotations_offset = k])
      [] a.name = "RuntimeInvisibleParameterAnnotations" ->
            [ev EXCEPT !.invisible_parameter_annotations_offset = k]
      [] a.name = "RuntimeInvisibleTypeAnnotations" ->
            Counted([ev EXCEPT !.invisible_type_annotations_offset = k])
      [] a.name = "RuntimeVisibleAnnotations" ->
            Counted([ev EXCEPT !.visible_annotations_offset = k])
      [] a.name = "RuntimeVisibleParameterAnnotations" ->
            [ev EXCEPT !.visible_parameter_annotations_offset = k]
      [] a.name = "RuntimeVisibleTypeAnnotations" ->
            Counted([ev EXCEPT !.visible_type_annotations_offset = k])
      [] a.name = "Synthetic" -> ev
      [] OTHER -> [ev EXCEPT !.custom_attribute_offsets = Append(@, k)]

RECURSIVE ScanMethodAttributes(_, _, _, _)
\* lines 1330-1406.
ScanMethodAttributes(ev, attributes, k, flags) ==
    IF ev.err # "" \/ k > Len(attributes) THEN ev
    ELSE ScanMethodAttributes(ScanMethodAttribute(ev, attributes[k], k, flags),
                              attributes, k + 1, flags)

\* lines 1295-1437: ClassMethodsIterator::event; err is "" for Ok.
ClassMethodsIteratorEvent(attributes, flags) ==
    ScanMethodAttributes(NewMethodReaderEvents, attributes, 1, flags)

\* The widths of MethodReaderEvents::state and ::code_index (lines 1580, 1581).
U8Max == 255

U16Max == 65535

\* The Label values an instruction event carries.
LabelsOfInsn(event) ==
    CASE event.kind = "JumpInsn" -> {event.label}
      [] event.kind = "TableSwitchInsn" ->
            {event.dflt} \cup {event.labels[j] : j \in DOMAIN event.labels}
      [] event.kind = "LookupSwitchInsn" ->
            {event.dflt} \cup {event.values[j][2] : j \in DOMAIN event.values}
      [] OTHER -> {}

LabelsOfFrame(frame) ==
    {frame.values[v].label : v \in {w \in DOMAIN frame.values : frame.values[w].tag = 8}}

\* What one call of next() comes to: an item returned, or no return at all.
Yield(self, kind, state, labels) ==
    [self |-> self,
     ret |-> [kind |-> kind, state |-> state, at |-> self.code_index, labels |-> labels,
              maxs |-> <<>>, err |-> ""]]

YieldErr(self, state, err) ==
    [self |-> self,
     ret |-> [kind |-> "Err", state |-> state, at |-> self.code_index, labels |-> {},
              maxs |-> <<>>, err |-> err]]

YieldNone(self, state) == Yield(self, "None", state, {})

Panic(self, message) ==
    [self |-> self,
     ret |-> [kind |-> "panic", state |-> self.state, at |-> self.code_index, labels |-> {},
              maxs |-> <<>>, err |-> message]]

Hang(self) ==
    [self |-> self,
     ret |-> [kind |-> "hang", state |-> self.state, at |-> self.code_index, labels |-> {},
              maxs |-> <<>>, err |-> ""]]

\* State 9 with the error of CodeData::read dropped and the iterator ended.
CodeEventDroppingError(self, state, code_data) ==
    IF code_data.err # "" THEN YieldNone(self, state)
    ELSE Yield([self EXCEPT !.code_data = Some(code_data)], "Code", state, {})

\* lines 1741-1752: what state 9 returns once CodeData::read has returned.
CodeEvent(self, state, code_data) ==
    IF code_data.err # "" THEN YieldErr(self, state, code_data.err)
    ELSE Yield([self EXCEPT !.code_data = Some(code_data)], "Code", state, {})

\* The offsets whose entry of insn_metadata still holds something.
BusyOffsets(meta) == {o \in DOMAIN meta : meta[o] # EmptyMetadata}

RECURSIVE MethodReaderEventsNext(_, _, _, _)
\* lines 1648-1911: one call of MethodReaderEvents::next.  checked is
\* the build's setting for integer overflow: the additions of lines 1655 and
\* 1827 panic with it and wrap without it.
MethodReaderEventsNext(self, attributes, flags, checked) ==
    IF self.state = U8Max /\ checked
    THEN Panic(self, "attempt to add with overflow")
    ELSE
    LET state == self.state
        s1 == [self EXCEPT !.state = (state + 1) % (U8Max + 1)]
        Continue(s) == MethodReaderEventsNext(s, attributes, flags, checked)
        Event(present, kind) == IF present THEN Yield(s1, kind, state, {}) ELSE Continue(s1)
        Count(at, kind) == IF at = 0 THEN Continue(s1)
                           ELSE IF attributes[at].ok THEN Yield(s1, kind, state, {})
                           ELSE YieldErr(s1, state, "OutOfBounds")
        no_code_data == s1.code_data = None
        cd == s1.code_data[1]
        index == s1.code_index
        m == MetaAt(cd.meta, index)
        Put(f, v) == [s1 EXCEPT !.code_data = Some([cd EXCEPT !.meta =
                          MetaPut(cd.meta, index, [m EXCEPT ![f] = v])])]
        Take(f) == [s1 EXCEPT !.code_data = Some([cd EXCEPT ![f] = <<>>])]
    IN  CASE state = 0 -> Event(s1.is_deprecated, "Deprecated")
          [] state = 1 -> Event(s1.parameters_offset # 0, "Parameters")
          [] state = 2 ->
                IF s1.annotation_default_offset = 0 THEN Continue(s1)
                ELSE IF attributes[s1.annotation_default_offset].ok
                THEN Yield(s1, "AnnotationDefault", state, {})
                ELSE YieldErr(s1, state, "OutOfBounds")
          [] state = 3 ->
                Event(s1.visible_annotations_offset # 0
                        \/ s1.invisible_type_annotations_offset # 0, "Annotations")
          [] state = 4 ->
                Event(s1.visible_type_annotations_offset # 0
                        \/ s1.invisible_type_annotations_offset # 0, "TypeAnnotations")
          [] state = 5 ->
                Count(s1.visible_parameter_annotations_offset, "AnnotableParameterCount(true)")
          [] state = 6 ->
                Count(s1.invisible_parameter_annotations_offset, "AnnotableParameterCount(false)")
          [] state = 7 ->
                Event(s1.visible_parameter_annotations_offset # 0
                        \/ s1.invisible_parameter_annotations_offset # 0, "ParameterAnnotations")
          [] state = 8 -> Event(s1.custom_attribute_offsets # <<>>, "Attributes")
          [] state = 9 ->
                IF s1.code_offset = 0 THEN YieldNone([s1 EXCEPT !.state = 22], state)
                ELSE CodeEvent(s1, state, CodeDataRead(attributes[s1.code_offset].code, flags))
          [] state \in 10..21 /\ no_code_data ->
                Panic(s1, "should not reach this state with no code data")
          [] state = 10 /\ ~no_code_data ->
                IF index >= cd.meta_len THEN Continue([s1 EXCEPT !.state = 16])
                ELSE IF m = EmptyMetadata
                THEN \* the turns 10 to 15 on offsets that hold nothing only add 1
                     \* to code_index, up to the next offset that holds something
                     LET ahead == {o \in BusyOffsets(cd.meta) : o > index}
                         stop == IF ahead = {} THEN cd.meta_len
                                 ELSE CHOOSE o \in ahead : \A q \in ahead : o <= q
                     IN  IF stop <= U16Max THEN Continue([s1 EXCEPT !.code_index = stop, !.state = 10])
                         ELSE IF checked
                         THEN Panic([s1 EXCEPT !.code_index = U16Max, !.state = 16],
                                    "attempt to add with overflow")
                         ELSE IF BusyOffsets(cd.meta) = {} THEN Hang(s1)
                         ELSE Continue([s1 EXCEPT !.code_index = 0, !.state = 10])
                ELSE IF m.label # None THEN Yield(s1, "Label", state, {m.label[1]})
                ELSE Continue(s1)
          [] state = 11 /\ ~no_code_data ->
                IF m.line_number = None THEN Continue(s1)
                ELSE IF m.label = None THEN Panic(s1, "line number should have label")
                ELSE Yield(s1, "LineNumber", state, {m.label[1]})
          [] state = 12 /\ ~no_code_data ->
                IF m.frame = None THEN Continue(s1)
                ELSE Yield(Put("frame", None), "Frame", state, LabelsOfFrame(m.frame[1]))
          [] state = 13 /\ ~no_code_data ->
                IF m.insn_event = None THEN Continue(s1)
                ELSE Yield(Put("insn_event", None), "Insn", state, LabelsOfInsn(m.insn_event[1]))
          [] state = 14 /\ ~no_code_data ->
                IF m.annotations = <<>> THEN Continue(s1)
                ELSE Yield(Put("annotations", <<>>), "InsnAnnotations", state, {})
          [] state = 15 /\ ~no_code_data ->
                IF index < U16Max THEN Continue([s1 EXCEPT !.code_index = index + 1, !.state = 10])
                ELSE IF checked THEN Panic(s1, "attempt to add with overflow")
                ELSE Continue([s1 EXCEPT !.code_index = 0, !.state = 10])
          [] state = 16 /\ ~no_code_data ->
                IF cd.lvt = <<>> THEN Continue(s1)
                ELSE Yield(Take("lvt"), "LocalVariables", state,
                           UNION {{cd.lvt[j].start, cd.lvt[j].end} : j \in DOMAIN cd.lvt})
          [] state = 17 /\ ~no_code_data ->
                IF cd.local_variable_annotations = <<>> THEN Continue(s1)
                ELSE Yield(Take("local_variable_annotations"), "LocalVariableAnnotations", state,
                           UNION {UNION {{a.ranges[r][1], a.ranges[r][2]} : r \in DOMAIN a.ranges}
                                  : a \in {cd.local_variable_annotations[j]
                                              : j \in DOMAIN cd.local_variable_annotations}})
          [] state = 18 /\ ~no_code_data ->
                IF cd.try_catch_blocks = <<>> THEN Continue(s1)
                ELSE Yield(Take("try_catch_blocks"), "TryCatchBlocks", state,
                           UNION {{cd.try_catch_blocks[j].start, cd.try_catch_blocks[j].end,
                                   cd.try_catch_blocks[j].handler} : j \in DOMAIN cd.try_catch_blocks})
          [] state = 19 /\ ~no_code_data ->
                IF cd.try_catch_block_annotations = <<>> THEN Continue(s1)
                ELSE Yield(Take("try_catch_block_annotations"), "TryCatchBlockAnnotations", state, {})
          [] state = 20 /\ ~no_code_data ->
                IF cd.custom_attribute_offsets = <<>> THEN Continue(s1)
                ELSE Yield(Take("custom_attribute_offsets"), "CodeAttributes", state, {})
          [] state = 21 /\ ~no_code_data ->
                [Yield(s1, "Maxs", state, {}) EXCEPT !.ret.maxs = <<cd.max_locals, cd.max_stack>>]
          [] OTHER -> YieldNone(s1, state)

(***************************************************************************)
(* Classes whose methods are drained through ClassMethodsIterator and      *)
(* MethodReaderEvents.                                                     *)
(***************************************************************************)
\* The attributes of a method other than Code, in class-file order.
MethodAttributeOrder ==
    <<"Signature", "Exceptions", "Deprecated", "Synthetic", "MethodParameters",
      "AnnotationDefault", "RuntimeVisibleAnnotations", "RuntimeInvisibleAnnotations",
      "RuntimeVisibleTypeAnnotations", "RuntimeInvisibleTypeAnnotations",
      "RuntimeVisibleParameterAnnotations", "RuntimeInvisibleParameterAnnotations", "Custom">>

MethodAttributeNames == {MethodAttributeOrder[j] : j \in DOMAIN MethodAttributeOrder}

\* The attributes whose truncated content the model follows.
Truncatable ==
    {"Signature", "AnnotationDefault", "RuntimeVisibleParameterAnnotations",
     "RuntimeInvisibleParameterAnnotations"}

CodeOf(program, exception_table, attributes) ==
    [max_stack |-> 2, max_locals |-> 3, code |-> Assemble(Layout(program, 0)),
     exception_table |-> exception_table, attributes |-> attributes]

\* goto 3; nop; return, with every table.
CodeA ==
    CodeOf(<<Jump(167, 3), Plain(0), Plain(177)>>, <<Pcs(0, 3, 3)>>,
           <<LineNumbers, LocalVariables, LocalVariableTypes, StackMap,
             VisibleTypeAnnotations, [name |-> "Custom"]>>)

\* return.
CodeB == CodeOf(<<Plain(177)>>, <<>>, <<>>)

\* ifnull with a target past the code.
CodeC == CodeOf(<<Jump(198, 200)>>, <<>>, <<>>)

\* nop; return, with a line number at the return: no branch, handler or
\* variable refers to that offset.
CodeLined ==
    CodeOf(<<Plain(0), Plain(177)>>, <<>>,
           <<[name |-> "LineNumberTable", entries |-> <<[start_pc |-> 1, line_number |-> 7]>>]>>)

\* A code array of MaxCodeLength bytes: a tableswitch at 0 with low 0 and high
\* 16378, all its branch offsets 0, followed by three nop.
CodeLong ==
    [max_stack |-> 1, max_locals |-> 1,
     code |-> [head |-> <<170, 0, 0, 0, 0, 0, 0, 0, 0, 0, 0, 0, 0, 0, 63, 250>>,
               len |-> MaxCodeLength],
     exception_table |-> <<>>, attributes |-> <<>>]

\* A method with the attributes named, those in truncated cut short, and the code.
Method(names, truncated, code) ==
    LET picked == SelectSeq(MethodAttributeOrder, LAMBDA n : n \in names) IN
    [j \in DOMAIN picked |-> [name |-> picked[j], ok |-> picked[j] \notin truncated]]
        \o (IF code = None THEN <<>> ELSE <<[name |-> "Code", ok |-> TRUE, code |-> code[1]]>>)

Methods ==
    {Method(names, truncated, Some(CodeB)) :
        names \in {n \in SUBSET MethodAttributeNames : Cardinality(n) <= MaxMethodAttrs},
        truncated \in {{}} \cup {{t} : t \in Truncatable}}
    \cup
    {Method(names, truncated, code) :
        names \in {{}, MethodAttributeNames},
        truncated \in {{}, {"AnnotationDefault"}},
        code \in {None, Some(CodeA), Some(CodeB), Some(CodeC)}}
    \cup {Method({}, {}, Some(CodeLong)), Method({}, {}, Some(CodeLined))}

Classes ==
    {<<method>> : method \in Methods}
    \cup {<<Method({}, {}, Some(CodeA)), Method({"Deprecated"}, {}, Some(CodeA))>>,
          <<Method({}, {}, Some(CodeB)), Method({}, {}, Some(CodeA))>>}

MethodReaderFlagSets == {{}, {"SkipCode"}, {"SkipDebug", "SkipFrames"}}

InitMethod ==
    /\ overflow_checks \in BOOLEAN
    /\ reader_flags \in MethodReaderFlagSets
    /\ cm_methods \in Classes
    /\ cm_remaining = Len(cm_methods)
    /\ mr = <<>>
    /\ mr_status = "none"
    /\ mr_out = <<>>
    /\ MrRest

\* The method the iterator has yielded last.
cm_current == Len(cm_methods) - cm_remaining

\* The items of a history up to its first None.
Yielded(h) ==
    LET nones == {j \in DOMAIN h : h[j].kind = "None"} IN
    IF nones = {} THEN h
    ELSE SubSeq(h, 1, (CHOOSE j \in nones : \A q \in nones : j <= q) - 1)

\* lines 1442-1448 with 1295-1437: ClassMethodsIterator::next.  The consumer
\* takes the next method at any point up to the end of the current one.
NextMethod ==
    /\ mr_status \in {"none", "active"}
    /\ cm_remaining > 0
    /\ mr_status = "active" =>
          \/ Yielded(Last(mr_out)) = Last(mr_out)
          \/ Yielded(Last(mr_out)) = Front(Last(mr_out)) /\ mr.state <= 23
    /\ cm_remaining' = cm_remaining - 1
    /\ LET event == ClassMethodsIteratorEvent(cm_methods[cm_current + 1], reader_flags) IN
       /\ mr' = event
       /\ mr_status' = IF event.err = "" THEN "active" ELSE "failed"
    /\ mr_out' = Append(mr_out, <<>>)
    /\ UNCHANGED <<overflow_checks, reader_flags, cm_methods, mrOthers>>

\* lines 1648-1911: MethodReaderEvents::next of the current method.
MethodNext ==
    /\ mr_status = "active"
    /\ Len(Last(mr_out)) < MaxEvents
    /\ Len(Last(mr_out)) - Len(Yielded(Last(mr_out))) <= MaxReplayed
    /\ LET r == MethodReaderEventsNext(mr, cm_methods[cm_current], reader_flags, overflow_checks)
           h == Last(mr_out)
       IN  /\ mr' = r.self
           /\ mr_status' = CASE r.ret.kind = "panic" -> "panicked"
                             [] r.ret.kind = "hang" -> "hung"
                             [] OTHER -> "active"
           /\ mr_out' = IF \/ r.ret.kind \in {"panic", "hang"}
                           \/ r.ret.kind = "None" /\ h # <<>> /\ Last(h).kind = "None"
                        THEN mr_out
                        ELSE [mr_out EXCEPT ![Len(mr_out)] = Append(h, r.ret)]
    /\ UNCHANGED <<overflow_checks, reader_flags, cm_methods, cm_remaining, mrOthers>>

NextMethods ==
    \/ NextMethod
    \/ MethodNext

SpecMethod == InitMethod /\ [][NextMethods]_vars

\* The place of a kind in an order of kinds.
PositionIn(order, kind) == CHOOSE j \in DOMAIN order : order[j] = kind

KindsOf(order) == {order[j] : j \in DOMAIN order}

MetadataOrder ==
    <<"Deprecated", "Parameters", "AnnotationDefault", "Annotations", "TypeAnnotations",
      "AnnotableParameterCount(true)", "AnnotableParameterCount(false)",
      "ParameterAnnotations", "Attributes">>

StreamOrder == <<"Label", "LineNumber", "Frame", "Insn", "InsnAnnotations">>

ClosingOrder ==
    <<"LocalVariables", "LocalVariableAnnotations", "TryCatchBlocks",
      "TryCatchBlockAnnotations", "CodeAttributes", "Maxs">>

\* The items of the kinds of an order stand in a history in that order, each once.
InOrder(h, order) ==
    \A a, b \in DOMAIN h :
        (a < b /\ h[a].kind \in KindsOf(order) /\ h[b].kind \in KindsOf(order)) =>
            PositionIn(order, h[a].kind) < PositionIn(order, h[b].kind)

\* A metadata event, or the error met in place of one.
IsMetadataItem(item) ==
    \/ item.kind \in KindsOf(MetadataOrder)
    \/ item.kind = "Err" /\ item.state <= 8

HasCodeAttribute(method) == \E k \in DOMAIN method : method[k].name = "Code"

\* The metadata items of a history come first.
MetadataFirst(h) ==
    \A a, b \in DOMAIN h : (a < b /\ IsMetadataItem(h[b])) => IsMetadataItem(h[a])

\* The item that follows the metadata items of a history, in a sequence.
AfterMetadata(h) == SelectSeq(h, LAMBDA item : ~IsMetadataItem(item))

\* C3 as stated: the metadata events come first, in the fixed order and each
\* at most once; the Code opening event follows them if and only if a Code
\* attribute is present and SkipCode is not set, and without a recorded Code
\* attribute the iterator ends right after them.
C3_MetadataThenCode ==
    \A j \in DOMAIN mr_out :
        LET h == Yielded(mr_out[j])
            after == AfterMetadata(mr_out[j])
            coded == HasCodeAttribute(cm_methods[j]) /\ "SkipCode" \notin reader_flags
        IN  /\ MetadataFirst(h)
            /\ InOrder(h, MetadataOrder)
            /\ after # <<>> =>
                  /\ after[1].kind = "Code" <=> coded
                  /\ ~coded => after[1].kind = "None"

\* C3 amended: as C3, but what follows the metadata events of a method with
\* a Code attribute and SkipCode not set is the Code opening event or the
\* error CodeData::read returned.
C3_MetadataThenCodeOrError ==
    \A j \in DOMAIN mr_out :
        LET h == Yielded(mr_out[j])
            after == AfterMetadata(mr_out[j])
            coded == HasCodeAttribute(cm_methods[j]) /\ "SkipCode" \notin reader_flags
        IN  /\ MetadataFirst(h)
            /\ InOrder(h, MetadataOrder)
            /\ after # <<>> =>
                  /\ after[1].kind \in {"Code", "Err"} <=> coded
                  /\ ~coded => after[1].kind = "None"

\* A method with every metadata attribute whose metadata events were followed
\* by the Code opening event.
C3_Witness ==
    /\ mr_out # <<>>
    /\ Len(mr_out[1]) >= Len(MetadataOrder) + 1
    /\ \A k \in DOMAIN MetadataOrder : mr_out[1][k].kind = MetadataOrder[k]
    /\ mr_out[1][Len(MetadataOrder) + 1].kind = "Code"

\* C4: the code stream of a method is emitted by ascending code offset, and at
\* one offset in the order Label, LineNumber, Frame, instruction,
\* InsnAnnotations; no event of a lower offset comes after one of a higher.
C4_AscendingOffsets ==
    \A j \in DOMAIN mr_out :
        LET h == Yielded(mr_out[j]) IN
        \A a, b \in DOMAIN h :
            (a < b /\ h[a].kind \in KindsOf(StreamOrder) /\ h[b].kind \in KindsOf(StreamOrder)) =>
                \/ h[a].at < h[b].at
                \/ /\ h[a].at = h[b].at
                   /\ PositionIn(StreamOrder, h[a].kind) < PositionIn(StreamOrder, h[b].kind)

\* The iteration of the j-th method is over: its iterator returned None, or
\* it is the current one and next() has panicked or does not return.
IsOver(j) ==
    \/ \E k \in DOMAIN mr_out[j] : mr_out[j][k].kind = "None"
    \/ j = Len(mr_out) /\ mr_status \in {"panicked", "hung"}

MaxsOf(method) ==
    LET k == CHOOSE c \in DOMAIN method : method[c].name = "Code" IN
    <<method[k].code.max_locals, method[k].code.max_stack>>

\* C5: after the code stream the closing events come in the fixed order; every
\* method that emitted Code emits Maxs exactly once, as its last event, with
\* the max_locals and max_stack of its Code attribute.
C5_ClosingEvents ==
    \A j \in DOMAIN mr_out :
        LET h == Yielded(mr_out[j])
            maxs == {k \in DOMAIN h : h[k].kind = "Maxs"}
        IN  /\ InOrder(h, ClosingOrder)
            /\ \A a, b \in DOMAIN h :
                  (a < b /\ h[a].kind \in KindsOf(ClosingOrder)) =>
                      h[b].kind \in KindsOf(ClosingOrder)
            /\ (IsOver(j) /\ \E k \in DOMAIN h : h[k].kind = "Code") =>
                  /\ maxs = {Len(h)}
                  /\ h[Len(h)].maxs = MaxsOf(cm_methods[j])

\* The Label values the items of a history carry.
LabelsIn(h) == UNION {h[k].labels : k \in DOMAIN h}

\* C9: no Label emitted while iterating one method of a class equals a Label
\* emitted while iterating another method of the class.
C9_MethodsShareNoLabel ==
    \A i, j \in DOMAIN mr_out :
        i # j => LabelsIn(mr_out[i]) \cap LabelsIn(mr_out[j]) = {}

\* The code_length of the Code attribute of a method.
CodeLengthOf(method) ==
    LET k == CHOOSE c \in DOMAIN method : method[c].name = "Code" IN
    method[k].code.code.len

\* C31: for a method whose code_length is 65535 the u16 code_index does not
\* overflow: next() neither panics nor fails to return, the walk does not
\* come back to a lower offset, and once the iteration is over the method has
\* emitted Maxs as its last event.
C31_MaxCodeLengthWalk ==
    \A j \in DOMAIN mr_out :
        (/\ HasCodeAttribute(cm_methods[j])
         /\ CodeLengthOf(cm_methods[j]) = MaxCodeLength
         /\ "SkipCode" \notin reader_flags) =>
            LET h == Yielded(mr_out[j]) IN
            /\ ~(j = Len(mr_out) /\ mr_status \in {"panicked", "hung"})
            /\ \A a, b \in DOMAIN h :
                  (a < b /\ h[a].kind \in KindsOf(StreamOrder)
                         /\ h[b].kind \in KindsOf(StreamOrder)) => h[a].at <= h[b].at
            /\ IsOver(j) => (h # <<>> /\ h[Len(h)].kind = "Maxs")

\* C32: over the lifetime of one MethodReaderEvents nothing is yielded twice:
\* at one code offset at most one Label, one Frame, one instruction event and
\* one InsnAnnotations list, and each of the closing lists at most once.
C32_NothingYieldedTwice ==
    \A j \in DOMAIN mr_out :
        LET h == mr_out[j] IN
        \A a, b \in DOMAIN h :
            a < b =>
               /\ ~(/\ h[a].kind \in {"Label", "Frame", "Insn", "InsnAnnotations"}
                    /\ h[b].kind = h[a].kind
                    /\ h[b].at = h[a].at)
               /\ ~(/\ h[a].kind \in {"LocalVariables", "LocalVariableAnnotations",
                                      "TryCatchBlocks", "TryCatchBlockAnnotations",
                                      "CodeAttributes"}
                    /\ h[b].kind = h[a].kind)

\* C38: every code offset with a line number has a label: the `expect` of
\* state 11 never fires, and a LineNumber event follows the Label event of
\* its offset and carries the label of that event as its start.
C38_LineNumberHasLabel ==
    /\ ~(mr_status = "panicked" /\ mr.state = 12 /\ mr.code_data # None)
    /\ \A j \in DOMAIN mr_out :
          \A a \in DOMAIN mr_out[j] :
              mr_out[j][a].kind = "LineNumber" =>
                  /\ a > 1
                  /\ mr_out[j][a - 1].kind = "Label"
                  /\ mr_out[j][a - 1].at = mr_out[j][a].at
                  /\ mr_out[j][a - 1].labels = mr_out[j][a].labels

\* The line number of offset 1 of nop; return has been yielded: the label of
\* that offset is there for the line number alone.
C38_Witness ==
    /\ cm_methods = <<Method({}, {}, Some(CodeLined))>>
    /\ mr_out # <<>>
    /\ \E a \in DOMAIN mr_out[1] : mr_out[1][a].kind = "LineNumber" /\ mr_out[1][a].at = 1

(***************************************************************************)
(* The class level.  The buffer of the reader is modelled from the         *)
(* fields_count on: `base` is the offset of that count (the bytes before   *)
(* it are the header, pool and interfaces, read without error), `bytes`    *)
(* the rest of the file.                                                   *)
(***************************************************************************)
BufferLen(buffer) == buffer.base + Len(buffer.bytes)

ByteAt(buffer, index) == buffer.bytes[index - buffer.base + 1]

\* lines 262-269: read_bytes(index, len); the error it returns, "" for Ok.
ReadBytes(buffer, index, len) ==
    IF index + len <= BufferLen(buffer) THEN "" ELSE "OutOfBounds"

\* lines 226-232 over 207-212: read_u16 and read_u32, big-endian.
ReadU16(buffer, index) ==
    IF index + 2 <= BufferLen(buffer)
    THEN [err |-> "", value |-> ByteAt(buffer, index) * 256 + ByteAt(buffer, index + 1)]
    ELSE [err |-> "OutOfBounds", value |-> 0]

\* The values read stay below 2^31 in this model: the first byte is below 128.
ReadU32(buffer, index) ==
    IF index + 4 <= BufferLen(buffer)
    THEN [err |-> "",
          value |-> ((ByteAt(buffer, index) * 256 + ByteAt(buffer, index + 1)) * 256
                        + ByteAt(buffer, index + 2)) * 256 + ByteAt(buffer, index + 3)]
    ELSE [err |-> "OutOfBounds", value |-> 0]

\* lines 271-281: slice(from..to); the error it returns, "" for Ok.
Slice(buffer, from, to) ==
    IF from <= to /\ to <= BufferLen(buffer) THEN "" ELSE "OutOfBounds"

\* The constant pool of the class: entry k is the Utf8 ClassPoolNames[k];
\* after them come a Class, a Module and a NameAndType entry.
ClassPoolNames ==
    <<"Custom", "BootstrapMethods", "Deprecated", "EnclosingMethod", "InnerClasses",
      "Module", "ModuleMainClass", "ModulePackages", "NestHost", "NestMembers",
      "PermittedSubclasses", "Signature", "SourceDebugExtension", "SourceFile", "Record",
      "RuntimeInvisibleAnnotations", "RuntimeInvisibleTypeAnnotations",
      "RuntimeVisibleAnnotations", "RuntimeVisibleTypeAnnotations", "Synthetic", "Unknown">>

ClassPoolTags ==
    [k \in DOMAIN ClassPoolNames |-> "Utf8"] \o <<"Class", "Module", "NameAndType">>

\* constant_pool.rs 128-137: index_to_offset; entry 0 of the pool is empty.
ClassPoolIndexError(index) ==
    IF index = 0 THEN "BadConstantPoolIndexNoEntry"
    ELSE IF index \notin DOMAIN ClassPoolTags THEN "BadConstantPoolIndex"
    ELSE ""

\* constant_pool.rs 168-203: a typed getter of the pool; "" for Ok.
ClassPoolExpect(index, tag) ==
    IF ClassPoolIndexError(index) # "" THEN ClassPoolIndexError(index)
    ELSE IF ClassPoolTags[index] # tag THEN "BadConstantPoolType"
    ELSE ""

\* constant_pool.rs 152-165: get_utf8_as_bytes.
GetUtf8AsBytes(index) ==
    IF ClassPoolExpect(index, "Utf8") # ""
    THEN [err |-> ClassPoolExpect(index, "Utf8"), name |-> ""]
    ELSE [err |-> "", name |-> ClassPoolNames[index]]

\* A typed getter applied to the u16 read at index; optional getters take 0.
GetAt(buffer, index, tag, optional) ==
    LET r == ReadU16(buffer, index) IN
    IF r.err # "" THEN r.err
    ELSE IF optional /\ r.value = 0 THEN ""
    ELSE ClassPoolExpect(r.value, tag)

\* The first error of a sequence of results, "" if there is none.
FirstError(errs) ==
    LET bad == {j \in DOMAIN errs : errs[j] # ""} IN
    IF bad = {} THEN "" ELSE errs[CHOOSE j \in bad : \A q \in bad : j <= q]

RECURSIVE SkipAttributes(_, _, _)
\* lines 337-341 and 352-356: the attributes of a field or method, passed over.
SkipAttributes(buffer, pos, attributes_count) ==
    IF attributes_count = 0 THEN [err |-> "", pos |-> pos]
    ELSE LET attribute_length == ReadU32(buffer, pos + 2) IN
         IF attribute_length.err # "" THEN [err |-> attribute_length.err, pos |-> pos]
         ELSE SkipAttributes(buffer, pos + 2 + 4 + attribute_length.value, attributes_count - 1)

RECURSIVE SkipMembers(_, _, _)
\* lines 333-342 and 348-357: the fields or the methods, passed over.
SkipMembers(buffer, pos, count) ==
    IF count = 0 THEN [err |-> "", pos |-> pos]
    ELSE LET attributes_count == ReadU16(buffer, pos + 6) IN
         IF attributes_count.err # "" THEN [err |-> attributes_count.err, pos |-> pos]
         ELSE LET skipped == SkipAttributes(buffer, pos + 6 + 2, attributes_count.value) IN
              IF skipped.err # "" THEN skipped
              ELSE SkipMembers(buffer, skipped.pos, count - 1)

\* lines 298-325: the locals of events() before the scan.
NewClassReaderEvents ==
    [access_synthetic |-> FALSE, fields_count |-> 0, methods_count |-> 0,
     signature_offset |-> 0, bootstrap_methods_offset |-> 0, enclosing_method_offset |-> 0,
     has_synthetic_attribute |-> FALSE, inner_classes_offset |-> 0,
     invisible_annotations_offset |-> 0, invisible_type_annotations_offset |-> 0,
     is_deprecated |-> FALSE, module_main_offset |-> 0, module_offset |-> 0,
     module_packages_offset |-> 0, nest_host_offset |-> 0, nest_members_offset |-> 0,
     permitted_subclasses_offset |-> 0, record_components_offset |-> 0,
     source_debug_offset |-> 0, source_offset |-> 0, visible_annotations_offset |-> 0,
     visible_type_annotations_offset |-> 0, custom_attributes_offsets |-> <<>>,
     state |-> 0, err |-> ""]

\* lines 370-415: the match on the attribute's name, pos at its content.
ScanClassAttribute(ev, buffer, name, pos) ==
    LET Counted(f) == IF ReadU16(buffer, pos).err # ""
                      THEN [ev EXCEPT !.err = ReadU16(buffer, pos).err]
                      ELSE [ev EXCEPT ![f] = pos + 2]
    IN  CASE name = "BootstrapMethods" -> [ev EXCEPT !.bootstrap_methods_offset = pos]
          [] name = "Deprecated" -> [ev EXCEPT !.is_deprecated = TRUE]
          [] name = "EnclosingMethod" -> [ev EXCEPT !.enclosing_method_offset = pos]
          [] name = "InnerClasses" -> Counted("inner_classes_offset")
          [] name = "Module" -> [ev EXCEPT !.module_offset = pos]
          [] name = "ModuleMainClass" -> [ev EXCEPT !.module_main_offset = pos]
          [] name = "ModulePackages" -> [ev EXCEPT !.module_packages_offset = pos]
          [] name = "NestHost" -> [ev EXCEPT !.nest_host_offset = pos]
          [] name = "NestMembers" -> Counted("nest_members_offset")
          [] name = "PermittedSubclasses" -> Counted("permitted_subclasses_offset")
          [] name = "Signature" -> [ev EXCEPT !.signature_offset = pos]
          [] name = "SourceDebugExtension" -> [ev EXCEPT !.source_debug_offset = pos - 4]
          [] name = "SourceFile" -> [ev EXCEPT !.source_offset = pos]
          [] name = "Record" -> Counted("record_components_offset")
          [] name = "RuntimeInvisibleAnnotations" -> Counted("invisible_annotations_offset")
          [] name = "RuntimeInvisibleTypeAnnotations" ->
                Counted("invisible_type_annotations_offset")
          [] name = "RuntimeVisibleAnnotations" -> Counted("visible_annotations_offset")
          [] name = "RuntimeVisibleTypeAnnotations" -> Counted("visible_type_annotations_offset")
          [] name = "Synthetic" -> [ev EXCEPT !.has_synthetic_attribute = TRUE]
          [] OTHER -> [ev EXCEPT !.custom_attributes_offsets = Append(@, pos - 6)]

RECURSIVE ScanClassAttributes(_, _, _, _)
\* lines 362-418: the loop over the attributes of the class.
ScanClassAttributes(ev, buffer, pos, attributes_count) ==
    IF ev.err # "" \/ attributes_count = 0 THEN ev
    ELSE LET name_index == ReadU16(buffer, pos)
             attribute_name == GetUtf8AsBytes(name_index.value)
             attribute_length == ReadU32(buffer, pos + 2)
             err == FirstError(<<name_index.err, attribute_name.err, attribute_length.err>>)
         IN  IF err # "" THEN [ev EXCEPT !.err = err]
             ELSE ScanClassAttributes(ScanClassAttribute(ev, buffer, attribute_name.name, pos + 6),
                                      buffer, pos + 6 + attribute_length.value,
                                      attributes_count - 1)

\* lines 359-418: the attributes_count and the scan, once the methods are passed over.
EventsAttributes(ev, buffer, skipped) ==
    IF skipped.err # "" THEN [ev EXCEPT !.err = skipped.err]
    ELSE IF ReadU16(buffer, skipped.pos).err # ""
         THEN [ev EXCEPT !.err = ReadU16(buffer, skipped.pos).err]
         ELSE ScanClassAttributes(ev, buffer, skipped.pos + 2,
                                  ReadU16(buffer, skipped.pos).value)

\* lines 344-357: the methods_count and the methods, once the fields are passed over.
EventsMethods(ev, buffer, skipped) ==
    IF skipped.err # "" THEN [ev EXCEPT !.err = skipped.err]
    ELSE IF ReadU16(buffer, skipped.pos).err # ""
         THEN [ev EXCEPT !.err = ReadU16(buffer, skipped.pos).err]
         ELSE EventsAttributes(
                 [ev EXCEPT !.methods_count = ReadU16(buffer, skipped.pos).value],
                 buffer,
                 SkipMembers(buffer, skipped.pos + 2, ReadU16(buffer, skipped.pos).value))

\* lines 294-462: ClassEventSource::events.  The access flags and the
\* interfaces are read from the header without error.
Events(reader, access_synthetic) ==
    IF ReadU16(reader.buffer, reader.buffer.base).err # ""
    THEN [NewClassReaderEvents EXCEPT !.err = ReadU16(reader.buffer, reader.buffer.base).err]
    ELSE EventsMethods(
            [NewClassReaderEvents EXCEPT
                !.access_synthetic = access_synthetic,
                !.fields_count = ReadU16(reader.buffer, reader.buffer.base).value],
            reader.buffer,
            SkipMembers(reader.buffer, reader.buffer.base + 2,
                        ReadU16(reader.buffer, reader.buffer.base).value))

\* lines 518-526: signature(), the only part of class_internal (506-516)
\* that reads past the header.
ClassInternal(self, buffer) ==
    IF self.signature_offset = 0 THEN ""
    ELSE GetAt(buffer, self.signature_offset, "Utf8", FALSE)

\* lines 536-569: source(); "skip" stands for Ok(None).  The bytes of a
\* SourceDebugExtension are valid modified UTF-8 in this model.
Source(self, reader) ==
    IF "SkipDebug" \in reader.reader_flags THEN "skip"
    ELSE IF self.source_offset = 0 /\ self.source_debug_offset = 0 THEN "skip"
    ELSE FirstError(
            <<IF self.source_offset = 0 THEN ""
              ELSE GetAt(reader.buffer, self.source_offset, "Utf8", FALSE),
              IF self.source_debug_offset = 0 THEN ""
              ELSE IF ReadU32(reader.buffer, self.source_debug_offset).err # ""
                   THEN ReadU32(reader.buffer, self.source_debug_offset).err
                   ELSE ReadBytes(reader.buffer, self.source_debug_offset + 4,
                                  ReadU32(reader.buffer, self.source_debug_offset).value)>>)

\* lines 571-602: module().
Module(self, buffer) ==
    IF self.module_offset = 0 THEN "skip"
    ELSE FirstError(<<GetAt(buffer, self.module_offset, "Module", FALSE),
                      ReadU16(buffer, self.module_offset + 2).err,
                      GetAt(buffer, self.module_offset + 4, "Utf8", TRUE)>>)

\* lines 604-612: nest_host().
NestHost(self, buffer) ==
    IF self.nest_host_offset = 0 THEN "skip"
    ELSE GetAt(buffer, self.nest_host_offset, "Class", FALSE)

\* lines 614-641: outer_class().
OuterClass(self, buffer) ==
    IF self.enclosing_method_offset = 0 THEN "skip"
    ELSE FirstError(<<GetAt(buffer, self.enclosing_method_offset, "Class", FALSE),
                      GetAt(buffer, self.enclosing_method_offset + 2, "NameAndType", TRUE)>>)

Present(condition) == IF condition THEN "" ELSE "skip"

\* lines 719-806: what the arm of a state comes to: "" for an event, "skip"
\* for falling through to the next state, or the error returned.
ClassStateOutcome(self, state, reader) ==
    CASE state = 0 -> ClassInternal(self, reader.buffer)
      [] state = 1 -> Present(self.access_synthetic \/ self.has_synthetic_attribute)
      [] state = 2 -> Present(self.is_deprecated)
      [] state = 3 -> Source(self, reader)
      [] state = 4 -> Module(self, reader.buffer)
      [] state = 5 -> NestHost(self, reader.buffer)
      [] state = 6 -> OuterClass(self, reader.buffer)
      [] state = 7 -> Present(\/ self.visible_annotations_offset # 0
                              \/ self.invisible_annotations_offset # 0)
      [] state = 8 -> Present(\/ self.visible_type_annotations_offset # 0
                              \/ self.invisible_type_annotations_offset # 0)
      [] state = 9 -> Present(self.custom_attributes_offsets # <<>>)
      [] state = 10 -> Present(self.nest_members_offset # 0)
      [] state = 11 -> Present(self.permitted_subclasses_offset # 0)
      [] state = 12 -> Present(self.inner_classes_offset # 0)
      [] state = 13 -> Present(self.record_components_offset # 0)
      [] state = 14 -> Present(self.fields_count # 0)
      [] state = 15 -> Present(self.methods_count # 0)

\* The arms of the match with those of nest_host and outer_class exchanged.
ClassStateKindOuterClassFirst(state) ==
    CASE state = 0 -> "Class"
      [] state = 1 -> "Synthetic"
      [] state = 2 -> "Deprecated"
      [] state = 3 -> "Source"
      [] state = 4 -> "Module"
      [] state = 5 -> "OuterClass"
      [] state = 6 -> "NestHost"
      [] state = 7 -> "Annotations"
      [] state = 8 -> "TypeAnnotations"
      [] state = 9 -> "Attributes"
      [] state = 10 -> "NestMembers"
      [] state = 11 -> "PermittedSubclasses"
      [] state = 12 -> "InnerClasses"
      [] state = 13 -> "Record"
      [] state = 14 -> "Fields"
      [] state = 15 -> "Methods"

\* lines 719-806: the event each arm of the match builds.
ClassStateKind(state) ==
    CASE state = 0 -> "Class"
      [] state = 1 -> "Synthetic"
      [] state = 2 -> "Deprecated"
      [] state = 3 -> "Source"
      [] state = 4 -> "Module"
      [] state = 5 -> "NestHost"
      [] state = 6 -> "OuterClass"
      [] state = 7 -> "Annotations"
      [] state = 8 -> "TypeAnnotations"
      [] state = 9 -> "Attributes"
      [] state = 10 -> "NestMembers"
      [] state = 11 -> "PermittedSubclasses"
      [] state = 12 -> "InnerClasses"
      [] state = 13 -> "Record"
      [] state = 14 -> "Fields"
      [] state = 15 -> "Methods"

ClassItem(kind, state, err) == [kind |-> kind, state |-> state, err |-> err]

RECURSIVE ClassReaderEventsNext(_, _)
\* lines 713-809: ClassReaderEvents::next.  `self.state += 1` on the u8
\* state panics at 255 where overflow checks are compiled in and wraps to 0
\* where they are not.
ClassReaderEventsNext(self, reader) ==
    LET state == self.state IN
    IF state = U8Max /\ reader.overflow_checks
    THEN [self |-> self, ret |-> ClassItem("panic", state, "attempt to add with overflow")]
    ELSE LET after == [self EXCEPT !.state = (state + 1) % (U8Max + 1)] IN
         IF state > 15 THEN [self |-> after, ret |-> ClassItem("None", state, "")]
         ELSE IF ClassStateOutcome(self, state, reader) = "skip"
              THEN ClassReaderEventsNext(after, reader)
              ELSE IF ClassStateOutcome(self, state, reader) = ""
                   THEN [self |-> after, ret |-> ClassItem(ClassStateKind(state), state, "")]
                   ELSE [self |-> after,
                         ret |-> ClassItem("Err", state, ClassStateOutcome(self, state, reader))]

\* lines 4133-4150: CustomAttributeReaderIterator::read; no reader is
\* registered for the name, so a read that gets through returns an
\* UnknownAttribute.  The length is read at `offset`, where the name index is.
CustomAttributeRead(reader, offset) ==
    LET name_index == ReadU16(reader.buffer, offset)
        len == ReadU32(reader.buffer, offset)
        err == FirstError(<<name_index.err, GetUtf8AsBytes(name_index.value).err, len.err,
                            Slice(reader.buffer, offset + 6, offset + 6 + len.value)>>)
    IN  IF err # "" THEN ClassItem("Err", offset, err)
        ELSE ClassItem("UnknownAttribute", offset, "")

(***************************************************************************)
(* The class files read: their fields, methods and attributes tables,      *)
(* encoded as the JVM specification lays them out.                         *)
(***************************************************************************)
MaxClassAttrs == 1

\* line 327: the offset of the fields_count, past the header, the pool and
\* the interfaces.
FieldsCountOffset == 200

Utf8Index(name) == PositionIn(ClassPoolNames, name)

ClassIndex == Len(ClassPoolNames) + 1

ModuleIndex == Len(ClassPoolNames) + 2

NameAndTypeIndex == Len(ClassPoolNames) + 3

\* The content of a well-formed attribute of each name.
AttributeInfo(name) ==
    CASE name = "Custom" -> <<1, 2, 3>>
      [] name \in {"Deprecated", "Synthetic"} -> <<>>
      [] name = "EnclosingMethod" -> BE16(ClassIndex) \o BE16(NameAndTypeIndex)
      [] name = "Module" ->
            BE16(ModuleIndex) \o BE16(0) \o BE16(0)
               \o BE16(0) \o BE16(0) \o BE16(0) \o BE16(0) \o BE16(0)
      [] name \in {"ModuleMainClass", "NestHost"} -> BE16(ClassIndex)
      [] name \in {"Signature", "SourceFile"} -> BE16(Utf8Index("SourceFile"))
      [] name = "SourceDebugExtension" -> <<97, 98>>
      [] OTHER -> BE16(0)

Attribute(name, info) == BE16(Utf8Index(name)) \o BE32(Len(info)) \o info

RECURSIVE Concat(_)
Concat(seqs) == IF seqs = <<>> THEN <<>> ELSE Head(seqs) \o Concat(Tail(seqs))

\* A field_info or method_info with the attributes named.
Member(names) ==
    BE16(1) \o BE16(1) \o BE16(1) \o BE16(Len(names))
       \o Concat([j \in DOMAIN names |-> Attribute(names[j], AttributeInfo(names[j]))])

\* The content of the attribute of a name in a class: cut to nothing where the
\* class has it truncated, its first index zeroed where it has it unindexed.
InfoIn(class, name) ==
    IF name \in class.truncated THEN <<>>
    ELSE IF name \in class.unindexed
         THEN BE16(0) \o SubSeq(AttributeInfo(name), 3, Len(AttributeInfo(name)))
         ELSE AttributeInfo(name)

NamesOf(class) == SelectSeq(ClassPoolNames, LAMBDA name : name \in class.names)

\* The bytes of a class with its attributes in the order given.
ClassBytesIn(class, names) ==
    BE16(class.fields_count)
       \o Concat([j \in 1..class.fields_count |-> Member(<<>>)])
       \o BE16(class.methods_count)
       \o Concat([j \in 1..class.methods_count |-> Member(<<"Deprecated">>)])
       \o BE16(Len(names))
       \o Concat([j \in DOMAIN names |-> Attribute(names[j], InfoIn(class, names[j]))])

ClassBytes(class) == ClassBytesIn(class, NamesOf(class))

ClassAttributeNames == KindsOf(ClassPoolNames)

\* The attributes whose content the events of the class decode.
Decoded == {"Signature", "SourceFile", "SourceDebugExtension", "Module", "NestHost",
            "EnclosingMethod"}

ClassFile(names, truncated, unindexed, fields_count, methods_count, access_synthetic) ==
    [names |-> names, truncated |-> truncated, unindexed |-> unindexed,
     fields_count |-> fields_count, methods_count |-> methods_count,
     access_synthetic |-> access_synthetic]

WellFormed(class) == class.truncated = {} /\ class.unindexed = {}

\* The sets of attributes a class is given: none, each attribute alone, a few
\* of those with decoded content or unknown to the reader, and all together.
AttributeSets ==
    {ns \in SUBSET (Decoded \cup {"Custom"}) : Cardinality(ns) <= MaxClassAttrs}
       \cup {{name} : name \in ClassAttributeNames}

ClassFiles ==
    {ClassFile(names, {}, {}, 0, 0, FALSE) : names \in AttributeSets}
    \cup {ClassFile(ClassAttributeNames, {}, {}, counts[1], counts[2], counts[3]) :
            counts \in {<<0, 0, FALSE>>, <<1, 0, FALSE>>, <<0, 1, TRUE>>, <<1, 1, FALSE>>}}
    \cup UNION {{ClassFile(nb[1], {nb[2]}, {}, 0, 0, FALSE),
                 ClassFile(nb[1], {}, {nb[2]} \ {"SourceDebugExtension"}, 0, 0, FALSE)} :
                  nb \in {nb \in (AttributeSets \cup {ClassAttributeNames}) \X Decoded :
                             nb[2] \in nb[1]}}
    \* a Signature without content, the last attribute of the two of the class
    \cup {ClassFile({"Custom", "Signature"}, {"Signature"}, {}, 0, 0, FALSE)}

\* The flags of the reader and whether the build checks overflow.
ClassReaderSettings == {<<{}, FALSE>>, <<{}, TRUE>>, <<{"SkipDebug"}, FALSE>>}

InitClass ==
    /\ cr_class \in ClassFiles
    /\ \E setting \in ClassReaderSettings :
          cr_reader = [buffer |-> [base |-> FieldsCountOffset, bytes |-> ClassBytes(cr_class)],
                       reader_flags |-> setting[1], overflow_checks |-> setting[2]]
    /\ cr = <<>>
    /\ cr_status = "new"
    /\ cr_out = <<>>
    /\ ca = <<>>
    /\ ca_out = <<>>
    /\ CrRest

\* lines 294-462: reader.events().
ClassEvents ==
    /\ cr_status = "new"
    /\ cr' = Events(cr_reader, cr_class.access_synthetic)
    /\ cr_status' = IF cr'.err = "" THEN "active" ELSE "failed"
    /\ UNCHANGED <<cr_class, cr_reader, cr_out, ca, ca_out, crOthers>>

\* lines 713-809: ClassReaderEvents::next; the Attributes event carries
\* the CustomAttributeReaderIterator that attributes() (663-665) builds.
ClassNext ==
    /\ cr_status = "active"
    /\ Len(cr_out) - Len(Yielded(cr_out)) <= MaxReplayed
    /\ LET r == ClassReaderEventsNext(cr, cr_reader) IN
       /\ cr' = r.self
       /\ cr_status' = IF r.ret.kind = "panic" THEN "panicked" ELSE "active"
       /\ cr_out' = IF \/ r.ret.kind = "panic"
                       \/ r.ret.kind = "None" /\ cr_out # <<>> /\ Last(cr_out).kind = "None"
                    THEN cr_out
                    ELSE Append(cr_out, r.ret)
       /\ ca' = IF r.ret.kind = "Attributes" /\ ca = <<>>
                THEN [offsets |-> cr.custom_attributes_offsets, index |-> 0]
                ELSE ca
    /\ UNCHANGED <<cr_class, cr_reader, ca_out, crOthers>>

\* An iterator whose next() moves the state of the ClassReaderEvents it came from.
CustomAttributeNextMovingParent ==
    /\ ca # <<>>
    /\ ca.index < Len(ca.offsets)
    /\ ca' = [ca EXCEPT !.index = @ + 1]
    /\ ca_out' = Append(ca_out, CustomAttributeRead(cr_reader, ca.offsets[ca.index + 1]))
    /\ cr' = [cr EXCEPT !.state = (@ + 1) % (U8Max + 1)]
    /\ UNCHANGED <<cr_class, cr_reader, cr_status, cr_out, crOthers>>

\* lines 4155-4159: CustomAttributeReaderIterator::next, up to its None.
CustomAttributeNext ==
    /\ ca # <<>>
    /\ ca.index < Len(ca.offsets)
    /\ ca' = [ca EXCEPT !.index = @ + 1]
    /\ ca_out' = Append(ca_out, CustomAttributeRead(cr_reader, ca.offsets[ca.index + 1]))
    /\ UNCHANGED <<cr_class, cr_reader, cr, cr_status, cr_out, crOthers>>

NextClass ==
    \/ ClassEvents
    \/ ClassNext
    \/ CustomAttributeNext

SpecClass == InitClass /\ [][NextClass]_vars

(***************************************************************************)
(* What the specification says of the events of a class.                   *)
(***************************************************************************)
ClassOrder ==
    <<"Class", "Synthetic", "Deprecated", "Source", "Module", "NestHost", "OuterClass",
      "Annotations", "TypeAnnotations", "Attributes", "NestMembers", "PermittedSubclasses",
      "InnerClasses", "Record", "Fields", "Methods">>

\* The items of an iteration come from states that only advance.
StatesAdvance(h) == \A a, b \in DOMAIN h : a < b => h[a].state < h[b].state

\* C2: the kinds of the events that ClassReaderEvents::next yields in an
\* iteration (the items up to its first None) are a subsequence of Class,
\* Synthetic, Deprecated, Source, Module, NestHost, OuterClass, Annotations,
\* TypeAnnotations, Attributes, NestMembers, PermittedSubclasses,
\* InnerClasses, Record, Fields, Methods: the first item is the Class header
\* or the error of decoding it, every item is an error or an event of one of
\* these kinds, no kind comes twice and none comes before a kind listed
\* ahead of it, so NestHost comes before OuterClass.
C2_ClassEventOrder ==
    LET h == Yielded(cr_out) IN
    /\ h # <<>> => h[1].state = 0 /\ h[1].kind \in {"Class", "Err"}
    /\ \A j \in DOMAIN h : h[j].kind \in KindsOf(ClassOrder) \cup {"Err"}
    /\ InOrder(h, ClassOrder)
    /\ StatesAdvance(h)

\* An iteration that yielded all sixteen events, NestHost and OuterClass among them.
C2_Witness ==
    /\ Len(Yielded(cr_out)) = Len(ClassOrder)
    /\ \A j \in DOMAIN ClassOrder : cr_out[j].kind = ClassOrder[j]
    /\ Last(cr_out).kind = "None"

\* A sequence back to front, and with its first element moved to the end.
Reverse(s) == [j \in DOMAIN s |-> s[Len(s) + 1 - j]]

Rotate(s) == IF s = <<>> THEN s ELSE Tail(s) \o <<Head(s)>>

RECURSIVE ClassItemsFrom(_, _, _)
\* The items ClassReaderEvents::next returns up to its first None, when
\* nothing but next() is called.
ClassItemsAfter(r, reader, fuel) ==
    IF fuel = 0 \/ r.ret.kind \in {"None", "panic"} THEN <<>>
    ELSE <<r.ret>> \o ClassItemsFrom(r.self, reader, fuel - 1)

ClassItemsFrom(self, reader, fuel) ==
    ClassItemsAfter(ClassReaderEventsNext(self, reader), reader, fuel)

KindsOfItems(items) == [j \in DOMAIN items |-> items[j].kind]

ClassKindsFrom(self, reader, fuel) == KindsOfItems(ClassItemsFrom(self, reader, fuel))

\* What reading the class with its attributes in another order comes to: the
\* error of events(), and the kinds of the events.
ClassKindsOfEvents(ev, reader) ==
    [err |-> ev.err,
     kinds |-> IF ev.err # "" THEN <<>> ELSE ClassKindsFrom(ev, reader, Len(ClassOrder) + 1)]

ClassKindsIn(names) ==
    LET reader == [cr_reader EXCEPT !.buffer.bytes = ClassBytesIn(cr_class, names)] IN
    ClassKindsOfEvents(Events(reader, cr_class.access_synthetic), reader)

\* The kinds of what the iteration has yielded are those of the class read
\* with its attributes in the order given, as far as the iteration has come.
SameKindsIn(names) ==
    LET other == ClassKindsIn(names)
        h == Yielded(cr_out)
    IN  /\ cr_status = "failed" <=> other.err # ""
        /\ cr_status \in {"active", "panicked"} =>
              /\ IsPrefix([j \in DOMAIN h |-> h[j].kind], other.kinds)
              /\ (cr_out # <<>> /\ Last(cr_out).kind = "None") => Len(h) = Len(other.kinds)

\* The custom attributes are handed out in the order of the file.
CustomInFileOrder ==
    ca # <<>> => \A a, b \in DOMAIN ca.offsets : a < b => ca.offsets[a] < ca.offsets[b]

\* C36: the sequence of the kinds of the events of ClassReaderEvents does not
\* depend on the order of the attributes in the file: the class read with
\* its attributes back to front, or with the first moved to the end, yields
\* the same kinds, and the custom attributes are in the order of the file.
C36_KindsWhateverTheOrder ==
    /\ cr_status # "new" =>
          /\ SameKindsIn(Reverse(NamesOf(cr_class)))
          /\ SameKindsIn(Rotate(NamesOf(cr_class)))
    /\ CustomInFileOrder

\* C36 for the class files whose attributes all have their content.
C36_KindsOfWellFormed ==
    WellFormed(cr_class) => C36_KindsWhateverTheOrder

\* A class with every attribute, its sixteen events yielded and the None after them.
C36_Witness ==
    /\ WellFormed(cr_class)
    /\ cr_class.names = ClassAttributeNames
    /\ Len(Yielded(cr_out)) = Len(ClassOrder)
    /\ Last(cr_out).kind = "None"
    /\ ClassKindsIn(Reverse(NamesOf(cr_class))).kinds = ClassOrder

\* What the ClassReaderEvents of the class yields and what the iterator of
\* its Attributes event yields, each drained on its own.
ClassAlone(ev) ==
    [items |-> ClassItemsFrom(ev, cr_reader, Len(ClassOrder) + 1),
     attributes |-> [j \in DOMAIN ev.custom_attributes_offsets |->
                        CustomAttributeRead(cr_reader, ev.custom_attributes_offsets[j])]]

AsAlone(alone) ==
    /\ IsPrefix(Yielded(cr_out), alone.items)
    /\ (cr_out # <<>> /\ Last(cr_out).kind = "None") => Len(Yielded(cr_out)) = Len(alone.items)
    /\ IsPrefix(ca_out, alone.attributes)
    /\ ca # <<>> => Len(ca_out) = ca.index /\ Len(ca.offsets) = Len(alone.attributes)

C37_WitnessDrainedFirst ==
    /\ cr_out # <<>>
    /\ Last(cr_out).kind = "Attributes"
    /\ ca # <<>>
    /\ Len(ca.offsets) = 2
    /\ Len(ca_out) = 2

\* C1: for a well-formed class file, draining events() and the iterator of
\* custom attributes it yields never panics and yields no OutOfBounds error.
C1_WellFormedNeverOutOfBounds ==
    WellFormed(cr_class) =>
        /\ cr_status = "failed" => cr.err # "OutOfBounds"
        /\ cr_status = "panicked" => Yielded(cr_out) # cr_out
        /\ \A j \in DOMAIN Yielded(cr_out) : cr_out[j].err # "OutOfBounds"
        /\ \A j \in DOMAIN ca_out : ca_out[j].err # "OutOfBounds"


(***************************************************************************)
(* The cache of the bootstrap-method table.  compute() is here a function  *)
(* of the attribute: the table it returns or the error it ends with.       *)
(***************************************************************************)
MaxBsmClones == 2

MaxLookups == 3

RECURSIVE Resolve(_, _, _)
RECURSIVE ResolveArgs(_, _, _, _, _)
RECURSIVE ResolveAfterCall(_, _, _, _, _)
\* lines 956-1019: resolve(i, unresolved_bsms, resolved_states, resolved_bsms);
\* st holds resolved_states, resolved_bsms and the error returned.
Resolve(i, unresolved, st) ==
    IF ResolveEntryOutcome(st.resolved_states[i]) = "ReturnOk" THEN st
    ELSE IF ResolveEntryOutcome(st.resolved_states[i]) = "Circular"
         THEN [st EXCEPT !.err = "BootstrapMethodCircularDependency"]
         ELSE ResolveArgs(i, 1, <<>>, unresolved,
                          [st EXCEPT !.resolved_states[i] = "Resolving"])

\* lines 973-1010: the arguments of entry i from position pos on.
ResolveArgs(i, pos, resolved_args, unresolved, st) ==
    IF st.err # "" THEN st
    ELSE IF pos > Len(unresolved[i])
    THEN [st EXCEPT !.resolved_bsms[i] = [handle |-> i, args |-> resolved_args],
                    !.resolved_states[i] = "Resolved"]
    ELSE IF unresolved[i][pos].kind # "ConstantDynamic"
    THEN ResolveArgs(i, pos + 1, Append(resolved_args, unresolved[i][pos]), unresolved, st)
    ELSE IF unresolved[i][pos].bootstrap_method_attr_index \notin DOMAIN unresolved
    THEN [st EXCEPT !.err = "BootstrapMethodOutOfBounds"]
    ELSE ResolveAfterCall(i, pos, resolved_args, unresolved,
                          Resolve(unresolved[i][pos].bootstrap_method_attr_index, unresolved, st))

\* lines 993-1006: the `?` on the inner resolve and the clone of what it resolved.
ResolveAfterCall(i, pos, resolved_args, unresolved, st) ==
    IF st.err # "" THEN st
    ELSE ResolveArgs(i, pos + 1,
                     Append(resolved_args,
                            ResolvedDynamicArg(unresolved[i][pos].bootstrap_method_attr_index,
                                               st.resolved_bsms)),
                     unresolved, st)

RECURSIVE ResolveAll(_, _, _)

\* A resolution that resolves the entry asked for and leaves the others.
ResolveOnly(i, unresolved, st) ==
    IF i \notin DOMAIN unresolved THEN st ELSE Resolve(i, unresolved, st)

\* lines 1021-1028: `for i in 0..bsm_count { resolve(i, ...)?; }`.
ResolveAll(i, unresolved, st) ==
    IF st.err # "" \/ i \notin DOMAIN unresolved THEN st
    ELSE ResolveAll(i + 1, unresolved, Resolve(i, unresolved, st))

\* lines 917-936: the constant-pool entries an argument may be.
BsmArgKinds ==
    {"Integer", "Float", "Long", "Double", "String", "Class", "MethodHandle", "ConstantDynamic"}

\* An argument that is no such entry.
Utf8Arg == [kind |-> "Utf8"]

BadArgument(bsms) ==
    \E i \in DOMAIN bsms : \E pos \in DOMAIN bsms[i] : bsms[i][pos].kind \notin BsmArgKinds

\* lines 873-1031: compute().  An attribute cut short fails in the parse loop
\* (898-940) with the OutOfBounds of a read, one with an argument of another
\* tag with the error of line 928.
Compute(attr) ==
    IF attr.bootstrap_methods_offset = 0 THEN [err |-> "", bsms |-> <<>>]
    ELSE IF attr.truncated THEN [err |-> "OutOfBounds", bsms |-> <<>>]
    ELSE IF BadArgument(attr.bsms)
    THEN [err |-> "BadConstantPoolTypeExpectedBootstrapMethodArgument", bsms |-> <<>>]
    ELSE LET st == ResolveAll(0, attr.bsms,
                              [resolved_states |-> [i \in DOMAIN attr.bsms |-> "Unresolved"],
                               resolved_bsms |-> [i \in DOMAIN attr.bsms |-> DummyBsm],
                               err |-> ""])
         IN  IF st.err # "" THEN [err |-> st.err, bsms |-> <<>>]
             ELSE [err |-> "", bsms |-> st.resolved_bsms]

\* lines 857-864 over 866-871: get(index) on what get_all() returned.
Get(all, index) ==
    IF all.err # "" THEN [err |-> all.err, bsm |-> <<>>]
    ELSE IF index \in DOMAIN all.bsms THEN [err |-> "", bsm |-> <<all.bsms[index]>>]
    ELSE [err |-> "BootstrapMethodOutOfBounds", bsm |-> <<>>,
          index |-> index, len |-> Cardinality(DOMAIN all.bsms)]

\* A cache that keeps a table but forgets an error.
GetOrInitForgettingErrors(cell, value) ==
    IF cell # <<>> THEN cell
    ELSE IF value.err # "" THEN <<>> ELSE <<value>>

\* line 867: OnceLock::get_or_init, the cell after the initializer returned value.
GetOrInit(cell, value) == IF cell # <<>> THEN cell ELSE <<value>>

\* The tables of the attribute: entry index -> arguments.
BsmTables ==
    UNION {[0..(n - 1) -> SeqsOver(UnresolvedBsmArg(n), {0, 1})] : n \in 0..MaxBsm}

\* Tables with an argument that is no loadable constant, beside entries that
\* resolve and entries that do not.
BadTagTables ==
    {(0 :> <<Utf8Arg>>),
     (0 :> <<>>) @@ (1 :> <<Utf8Arg>>),
     (0 :> <<DynamicArg(0)>>) @@ (1 :> <<Utf8Arg>>)}

BsmAttributes ==
    {[bootstrap_methods_offset |-> 0, truncated |-> FALSE, bsms |-> <<>>],
     [bootstrap_methods_offset |-> 8, truncated |-> TRUE, bsms |-> <<>>]}
    \cup {[bootstrap_methods_offset |-> 8, truncated |-> FALSE, bsms |-> t] : t \in BsmTables}
    \cup {[bootstrap_methods_offset |-> 8, truncated |-> FALSE, bsms |-> t] : t \in BadTagTables}

IdleCall == [pc |-> "idle", index |-> 0]

\* lines 455-459: events() builds the one BootstrapMethods with an empty cache.
InitBsmCache ==
    /\ bm_attr \in BsmAttributes
    /\ cache = <<>>
    /\ bm_clones = <<IdleCall>>
    /\ bm_computes = 0
    /\ bm_returns = <<>>
    /\ BmRest

\* lines 703-710 and 1432: methods() and ClassMethodsIterator::event hand a
\* clone to each methods iterator and each method.
CloneBootstrapMethods ==
    /\ Len(bm_clones) < MaxBsmClones
    /\ bm_clones' = Append(bm_clones, IdleCall)
    /\ UNCHANGED <<bm_attr, cache, bm_computes, bm_returns, bmOthers>>

\* A return of get(): the clone, the index asked, what it got, and whether the
\* caller found the cell filled ("cached"), filled it ("computed") or waited.
Returned(h, index, got, how) == [clone |-> h, index |-> index, got |-> got, how |-> how]

InFlight == {h \in DOMAIN bm_clones : bm_clones[h].pc # "idle"}

\* lines 857-871: a clone calls get(index): with the cell filled it returns
\* at once; with it empty the caller runs compute(), or waits for the caller
\* that is running it.
GetCall(h, index) ==
    /\ bm_clones[h].pc = "idle"
    /\ Len(bm_returns) + Cardinality(InFlight) < MaxLookups
    /\ IF cache # <<>>
       THEN /\ bm_returns' = Append(bm_returns, Returned(h, index, Get(cache[1], index), "cached"))
            /\ UNCHANGED bm_clones
       ELSE /\ bm_clones' = [bm_clones EXCEPT ![h] =
                                [pc |-> IF \E g \in DOMAIN bm_clones : bm_clones[g].pc = "computing"
                                        THEN "blocked" ELSE "computing",
                                 index |-> index]]
            /\ UNCHANGED bm_returns
    /\ UNCHANGED <<bm_attr, cache, bm_computes, bmOthers>>

\* lines 866-871: compute() returns to get_or_init, which fills the cell.
ComputeReturns(h) ==
    /\ bm_clones[h].pc = "computing"
    /\ bm_computes' = bm_computes + 1
    /\ cache' = GetOrInit(cache, Compute(bm_attr))
    /\ bm_returns' = Append(bm_returns, Returned(h, bm_clones[h].index,
                                                 Get(Compute(bm_attr), bm_clones[h].index),
                                                 "computed"))
    /\ bm_clones' = [bm_clones EXCEPT ![h] = IdleCall]
    /\ UNCHANGED <<bm_attr, bmOthers>>

\* line 867: a caller that waited in get_or_init finds the cell filled; had
\* the cell stayed empty it would run the initializer itself.
WaitReturns(h) ==
    /\ bm_clones[h].pc = "blocked"
    /\ \A g \in DOMAIN bm_clones : bm_clones[g].pc # "computing"
    /\ IF cache # <<>>
       THEN /\ bm_returns' = Append(bm_returns,
                                    Returned(h, bm_clones[h].index,
                                             Get(cache[1], bm_clones[h].index), "waited"))
            /\ bm_clones' = [bm_clones EXCEPT ![h] = IdleCall]
       ELSE /\ bm_clones' = [bm_clones EXCEPT ![h].pc = "computing"]
            /\ UNCHANGED bm_returns
    /\ UNCHANGED <<bm_attr, cache, bm_computes, bmOthers>>

NextBsmCache ==
    \/ CloneBootstrapMethods
    \/ \E h \in DOMAIN bm_clones, index \in {0, MaxBsm} : GetCall(h, index)
    \/ \E h \in DOMAIN bm_clones : ComputeReturns(h)
    \/ \E h \in DOMAIN bm_clones : WaitReturns(h)

SpecBsmCache == InitBsmCache /\ [][NextBsmCache]_vars

\* What has been returned is what the cell holds.
ReturnsFromCache ==
    \A j \in DOMAIN bm_returns :
        /\ cache # <<>>
        /\ bm_returns[j].got = Get(cache[1], bm_returns[j].index)

\* C11: over all clones of the BootstrapMethods of one events() call and all
\* their lookups, compute() runs at most once; the cell, once filled, keeps
\* its value, be it a table or an error, and every lookup returns from that
\* value: the same error each time after a failure, entries of the same
\* table after a success.
C11_ComputedAtMostOnce ==
    /\ [](bm_computes <= 1 /\ ReturnsFromCache)
    /\ [][cache # <<>> => cache' = cache /\ bm_computes' = bm_computes]_vars

\* The entries a ConstantDynamic argument of entry i of a table refers to.
TableRefs(table, i) ==
    {table[i][k].bootstrap_method_attr_index :
        k \in {p \in DOMAIN table[i] : table[i][p].kind = "ConstantDynamic"}}

RECURSIVE TableReach(_, _, _)
\* The entries of the table reachable from the set S in at most `fuel` steps.
TableReach(table, S, fuel) ==
    LET T == S \cup UNION {TableRefs(table, i) : i \in S \cap DOMAIN table}
    IN  IF fuel = 0 \/ T = S THEN S ELSE TableReach(table, T, fuel - 1)

\* The errors the defects of an attribute may give compute(): those of the
\* parse loop before those of the resolution.
DefectsOf(attr) ==
    IF attr.bootstrap_methods_offset = 0 THEN {}
    ELSE IF attr.truncated THEN {"OutOfBounds"}
    ELSE IF BadArgument(attr.bsms) THEN {"BadConstantPoolTypeExpectedBootstrapMethodArgument"}
    ELSE (IF \E i \in DOMAIN attr.bsms : ~(TableRefs(attr.bsms, i) \subseteq DOMAIN attr.bsms)
          THEN {"BootstrapMethodOutOfBounds"} ELSE {})
         \cup
         (IF \E i \in DOMAIN attr.bsms :
                i \in TableReach(attr.bsms, TableRefs(attr.bsms, i), Cardinality(DOMAIN attr.bsms))
          THEN {"BootstrapMethodCircularDependency"} ELSE {})

\* C34: the lookup is all-or-nothing.  With a table of which some entry does
\* not resolve, every get(i) returns the error of the computation, one error
\* for all lookups, whatever entry is asked for; with a table that resolves,
\* get(i) returns entry i for i < count and
\* BootstrapMethodOutOfBounds{index: i, len: count} otherwise.
C34_AllOrNothing ==
    LET defects == DefectsOf(bm_attr)
        count == Cardinality(DOMAIN bm_attr.bsms)
    IN
    \A j \in DOMAIN bm_returns :
        LET got == bm_returns[j].got
            index == bm_returns[j].index
        IN  IF defects # {}
            THEN /\ got.err \in defects
                 /\ got.bsm = <<>>
                 /\ "index" \notin DOMAIN got
                 /\ bm_returns[1].got = got
            ELSE IF index < count
            THEN /\ got.err = ""
                 /\ got.bsm[1].handle = index
                 /\ Len(got.bsm[1].args) = Len(bm_attr.bsms[index])
            ELSE got = [err |-> "BootstrapMethodOutOfBounds", bsm |-> <<>>,
                        index |-> index, len |-> count]

\* Entry 0 has no argument and entry 1 refers to itself: the lookups of entry
\* 0 and of an index past the table have both failed with the error of entry 1.
C34_Witness ==
    /\ bm_attr.bsms = (0 :> <<>>) @@ (1 :> <<DynamicArg(1)>>)
    /\ \E a, b \in DOMAIN bm_returns :
          /\ bm_returns[a].index = 0
          /\ bm_returns[b].index = MaxBsm
          /\ bm_returns[a].got.err = "BootstrapMethodCircularDependency"
          /\ bm_returns[b].got.err = "BootstrapMethodCircularDependency"

\* A table that resolves: entry 0 returned, and the index past it refused.
C34_WitnessResolved ==
    /\ DefectsOf(bm_attr) = {}
    /\ \E a, b \in DOMAIN bm_returns :
          /\ bm_returns[a].got.err = ""
          /\ bm_returns[b].got.err = "BootstrapMethodOutOfBounds"

\* A failed computation whose error two clones have been given, the second
\* one without computing.
C11_Witness ==
    /\ cache # <<>>
    /\ cache[1].err = "BootstrapMethodCircularDependency"
    /\ bm_computes = 1
    /\ \E a, b \in DOMAIN bm_returns :
          /\ a < b
          /\ bm_returns[a].clone # bm_returns[b].clone
          /\ bm_returns[a].got.err = cache[1].err
          /\ bm_returns[b].got.err = cache[1].err


(***************************************************************************)
(* ClassBuffer over the whole file (class_reader.rs 201-282).  `data` is   *)
(* the byte slice, its first byte at index 0.  An index is a usize: the    *)
(* values of the upper half of the usize range are written as what they    *)
(* lack to 2^w, negative, so that -1 is usize::MAX whatever the width w.   *)
(* Errors are records; their `kind` is the variant of ClassFileError.      *)
(***************************************************************************)
NoError == [kind |-> "Ok"]

OutOfBounds(index, len) == [kind |-> "OutOfBounds", index |-> index, len |-> len]

IsOk(r) == r.err = NoError

\* a < b on usize.
UsizeLess(a, b) == IF (a < 0) = (b < 0) THEN a < b ELSE b < 0

\* a + b on usize carries out of the width: a panic where overflow is checked.
UsizeAddOverflows(a, b) == (a < 0 /\ b >= 0 /\ a + b >= 0) \/ (b < 0 /\ a >= 0 /\ a + b >= 0)
                              \/ (a < 0 /\ b < 0)

\* lines 262-269: read_bytes(index, len), the sum taken as the build without
\* overflow checks takes it.
read_bytes(data, index, len) ==
    IF ~UsizeLess(index + len, index) /\ ~UsizeLess(Len(data), index + len)
    THEN [err |-> NoError, bytes |-> SubSeq(data, index + 1, index + len)]
    ELSE [err |-> OutOfBounds(index + len - 1, Len(data)), bytes |-> <<>>]

\* lines 222-224: read_u8.
read_u8(data, index) ==
    [err |-> read_bytes(data, index, 1).err,
     value |-> IF IsOk(read_bytes(data, index, 1)) THEN data[index + 1] ELSE 0]

\* lines 226-228: read_u16, big-endian.
read_u16(data, index) ==
    [err |-> read_bytes(data, index, 2).err,
     value |-> IF IsOk(read_bytes(data, index, 2))
               THEN data[index + 1] * 256 + data[index + 2] ELSE 0]

\* lines 271-281: slice(from..to): the sub-cursor holds the bytes of the range only.
slice(data, from, to) ==
    IF ~UsizeLess(to, from) /\ ~UsizeLess(Len(data), to)
    THEN [err |-> NoError, data |-> SubSeq(data, from + 1, to)]
    ELSE [err |-> OutOfBounds(Len(data), Len(data)), data |-> <<>>]

(***************************************************************************)
(* The constant pool (constant_pool.rs).                                   *)
(***************************************************************************)
\* lines 9-27: the tags by their byte.
ConstantPoolTag ==
    [b \in {1, 3, 4, 5, 6, 7, 8, 9, 10, 11, 12, 15, 16, 17, 18, 19, 20} |->
        CASE b = 1 -> "Utf8" [] b = 3 -> "Integer" [] b = 4 -> "Float" [] b = 5 -> "Long"
          [] b = 6 -> "Double" [] b = 7 -> "Class" [] b = 8 -> "String" [] b = 9 -> "FieldRef"
          [] b = 10 -> "MethodRef" [] b = 11 -> "InterfaceMethodRef" [] b = 12 -> "NameAndType"
          [] b = 15 -> "MethodHandle" [] b = 16 -> "MethodType" [] b = 17 -> "Dynamic"
          [] b = 18 -> "InvokeDynamic" [] b = 19 -> "Module" [] b = 20 -> "Package"]

Tags == {ConstantPoolTag[b] : b \in DOMAIN ConstantPoolTag}

\* lines 30-33: ConstantPoolTag::from_u8 of the byte read at an offset.
TagAt(data, offset) ==
    IF ~IsOk(read_u8(data, offset)) THEN [err |-> read_u8(data, offset).err, tag |-> ""]
    ELSE IF read_u8(data, offset).value \notin DOMAIN ConstantPoolTag
         THEN [err |-> [kind |-> "BadConstantPoolTag", tag |-> read_u8(data, offset).value],
               tag |-> ""]
         ELSE [err |-> NoError, tag |-> ConstantPoolTag[read_u8(data, offset).value]]

\* lines 96-118: what an entry of a tag adds to current_offset past its tag
\* byte, and to i.
EntrySize(data, tag, current_offset) ==
    CASE tag \in {"Class", "MethodType", "Module", "String", "Package"} -> [err |-> NoError, size |-> 2]
      [] tag = "MethodHandle" -> [err |-> NoError, size |-> 3]
      [] tag \in {"Double", "Long"} -> [err |-> NoError, size |-> 8]
      [] tag = "Utf8" -> [err |-> read_u16(data, current_offset).err,
                          size |-> 2 + read_u16(data, current_offset).value]
      [] OTHER -> [err |-> NoError, size |-> 4]

Slots(tag) == IF tag \in {"Double", "Long"} THEN 2 ELSE 1

RECURSIVE NewLoop(_, _, _, _)
\* lines 92-119: `while i < constant_pool_count`.
NewLoop(data, i, current_offset, cp_offset) ==
    IF i \notin DOMAIN cp_offset
    THEN [err |-> NoError, offset |-> cp_offset, metadata_start |-> current_offset]
    ELSE IF ~IsOk(TagAt(data, current_offset))
    THEN [err |-> TagAt(data, current_offset).err, offset |-> cp_offset, metadata_start |-> 0]
    ELSE IF ~IsOk(EntrySize(data, TagAt(data, current_offset).tag, current_offset + 1))
    THEN [err |-> EntrySize(data, TagAt(data, current_offset).tag, current_offset + 1).err,
          offset |-> cp_offset, metadata_start |-> 0]
    ELSE NewLoop(data, i + Slots(TagAt(data, current_offset).tag),
                 current_offset + 1
                    + EntrySize(data, TagAt(data, current_offset).tag, current_offset + 1).size,
                 [cp_offset EXCEPT ![i] = current_offset])

\* lines 84-126: ConstantPool::new; the pool starts at byte 8 with its count.
ConstantPoolNew(data) ==
    IF ~IsOk(read_u16(data, 8))
    THEN [err |-> read_u16(data, 8).err, offset |-> <<>>, metadata_start |-> 0]
    ELSE NewLoop(data, 1, 10, [i \in 0..(read_u16(data, 8).value - 1) |-> 0])

\* lines 128-137: index_to_offset.
index_to_offset(offset, index) ==
    IF index \notin DOMAIN offset
    THEN [err |-> [kind |-> "BadConstantPoolIndex", index |-> index,
                   len |-> Cardinality(DOMAIN offset)],
          offset |-> 0]
    ELSE IF offset[index] = 0
         THEN [err |-> [kind |-> "BadConstantPoolIndexNoEntry", index |-> index], offset |-> 0]
         ELSE [err |-> NoError, offset |-> offset[index]]

\* lines 139-142: get_type.
get_type(data, offset, index) ==
    IF ~IsOk(index_to_offset(offset, index))
    THEN [err |-> index_to_offset(offset, index).err, tag |-> ""]
    ELSE TagAt(data, index_to_offset(offset, index).offset)


\* A decoded value is a sequence of byte strings and small numbers, each a
\* sequence: a Utf8 is <<bytes>>, a NameAndType <<name, desc>>, a member
\* reference <<owner, name, desc>>.
Fail(err) == [err |-> err, value |-> <<>>]

Value(v) == [err |-> NoError, value |-> v]

\* r1?, then r2?, the two values side by side.
Both(r1, r2) ==
    LET first == r1 IN
    IF ~IsOk(first) THEN Fail(first.err)
    ELSE LET second == r2 IN
         IF ~IsOk(second) THEN Fail(second.err)
         ELSE Value(first.value \o second.value)

BadConstantPoolType(expected, actual) ==
    [kind |-> "BadConstantPoolType", expected |-> expected, actual |-> actual]

\* lines 7-18 of handle.rs: the handle kinds by their byte.
HandleKind ==
    <<"GetField", "GetStatic", "PutField", "PutStatic", "InvokeVirtual", "InvokeStatic",
      "InvokeSpecial", "NewInvokeSpecial", "InvokeInterface">>

RECURSIVE getter(_, _, _, _)
RECURSIVE read(_, _, _, _)
\* A getter that reads the entry at index as the tag asked for without
\* comparing the tag it carries.
getterUnchecked(data, offset, tag, index) ==
    LET at == index_to_offset(offset, index) IN
    IF ~IsOk(at) THEN Fail(at.err) ELSE read(data, offset, tag, at.offset)

\* lines 184-193: $getter(index) for the tag: the entry at index must carry it.
getter(data, offset, tag, index) ==
    LET at == index_to_offset(offset, index) IN
    IF ~IsOk(at) THEN Fail(at.err)
    ELSE LET actual == TagAt(data, at.offset) IN
         IF ~IsOk(actual) THEN Fail(actual.err)
         ELSE IF actual.tag # tag THEN Fail(BadConstantPoolType(tag, actual.tag))
         ELSE read(data, offset, tag, at.offset)

\* The getter of a tag on the index read at a place of the buffer.
GetIndexed(data, offset, tag, at) ==
    LET index == read_u16(data, at) IN
    IF ~IsOk(index) THEN Fail(index.err) ELSE getter(data, offset, tag, index.value)

\* lines 221-235: owner and name_and_type of a FieldRef, MethodRef or
\* InterfaceMethodRef at a place of the buffer.
MemberRef(data, offset, at) ==
    Both(GetIndexed(data, offset, "Class", at + 1),
         GetIndexed(data, offset, "NameAndType", at + 3))

\* A dispatch where InvokeStatic and InvokeSpecial take a MethodRef only.
HandleMemberMethodRefOnly(data, offset, kind, ref_index) ==
    CASE kind \in {"GetField", "GetStatic", "PutField", "PutStatic"} ->
            Both(getter(data, offset, "FieldRef", ref_index), Value(<<<<0>>>>))
      [] kind = "InvokeInterface" ->
            Both(getter(data, offset, "InterfaceMethodRef", ref_index), Value(<<<<1>>>>))
      [] OTHER ->
            Both(getter(data, offset, "MethodRef", ref_index), Value(<<<<0>>>>))

\* lines 251-267: the member a handle of a kind refers to, and is_interface.
HandleMember(data, offset, kind, ref_index) ==
    CASE kind \in {"GetField", "GetStatic", "PutField", "PutStatic"} ->
            Both(getter(data, offset, "FieldRef", ref_index), Value(<<<<0>>>>))
      [] kind \in {"InvokeVirtual", "NewInvokeSpecial"} ->
            Both(getter(data, offset, "MethodRef", ref_index), Value(<<<<0>>>>))
      [] kind = "InvokeInterface" ->
            Both(getter(data, offset, "InterfaceMethodRef", ref_index), Value(<<<<1>>>>))
      [] OTHER ->
            LET at == index_to_offset(offset, ref_index) IN
            IF ~IsOk(at) THEN Fail(at.err)
            ELSE LET actual == TagAt(data, at.offset) IN
                 IF ~IsOk(actual) THEN Fail(actual.err)
                 ELSE IF actual.tag \notin {"MethodRef", "InterfaceMethodRef"}
                 THEN Fail(BadConstantPoolType("MethodRef", actual.tag))
                 ELSE Both(MemberRef(data, offset, at.offset),
                           Value(<<<<IF actual.tag = "InterfaceMethodRef" THEN 1 ELSE 0>>>>))

\* lines 248-269: the read of a MethodHandle: <<kind, owner, name, desc, is_interface>>.
ReadMethodHandle(data, offset, at) ==
    IF ~IsOk(read_u8(data, at + 1)) THEN Fail(read_u8(data, at + 1).err)
    ELSE IF read_u8(data, at + 1).value \notin DOMAIN HandleKind
    THEN Fail([kind |-> "BadHandleKind", tag |-> read_u8(data, at + 1).value])
    ELSE IF ~IsOk(read_u16(data, at + 2)) THEN Fail(read_u16(data, at + 2).err)
    ELSE Both(Value(<<<<read_u8(data, at + 1).value>>>>),
              HandleMember(data, offset, HandleKind[read_u8(data, at + 1).value],
                           read_u16(data, at + 2).value))

\* lines 206-289: the $read of each tag, at the offset of the entry.  The
\* bytes of a Utf8 are valid modified UTF-8 in this model.
read(data, offset, tag, at) ==
    CASE tag = "Utf8" ->
            IF ~IsOk(read_u16(data, at + 1)) THEN Fail(read_u16(data, at + 1).err)
            ELSE IF ~IsOk(read_bytes(data, at + 3, read_u16(data, at + 1).value))
            THEN Fail(read_bytes(data, at + 3, read_u16(data, at + 1).value).err)
            ELSE Value(<<read_bytes(data, at + 3, read_u16(data, at + 1).value).bytes>>)
      [] tag \in {"Integer", "Float"} ->
            IF ~IsOk(read_bytes(data, at + 1, 4)) THEN Fail(read_bytes(data, at + 1, 4).err)
            ELSE Value(<<read_bytes(data, at + 1, 4).bytes>>)
      [] tag \in {"Long", "Double"} ->
            IF ~IsOk(read_bytes(data, at + 1, 8)) THEN Fail(read_bytes(data, at + 1, 8).err)
            ELSE Value(<<read_bytes(data, at + 1, 8).bytes>>)
      [] tag \in {"Class", "String", "MethodType", "Module", "Package"} ->
            GetIndexed(data, offset, "Utf8", at + 1)
      [] tag \in {"FieldRef", "MethodRef", "InterfaceMethodRef"} -> MemberRef(data, offset, at)
      [] tag = "NameAndType" ->
            Both(GetIndexed(data, offset, "Utf8", at + 1),
                 GetIndexed(data, offset, "Utf8", at + 3))
      [] tag = "MethodHandle" -> ReadMethodHandle(data, offset, at)
      [] tag \in {"Dynamic", "InvokeDynamic"} ->
            IF ~IsOk(read_u16(data, at + 1)) THEN Fail(read_u16(data, at + 1).err)
            ELSE Both(Value(<<<<read_u16(data, at + 1).value>>>>),
                      GetIndexed(data, offset, "NameAndType", at + 3))

\* lines 173-182: get(index): the entry under the tag it carries.
get(data, offset, index) ==
    LET at == index_to_offset(offset, index) IN
    IF ~IsOk(at) THEN [err |-> at.err, tag |-> "", value |-> <<>>]
    ELSE LET actual == TagAt(data, at.offset) IN
         IF ~IsOk(actual) THEN [err |-> actual.err, tag |-> "", value |-> <<>>]
         ELSE LET entry == read(data, offset, actual.tag, at.offset) IN
              [err |-> entry.err, tag |-> actual.tag, value |-> entry.value]

\* lines 195-200: $opt_getter(index); Ok(None) is the value <<>>, Ok(Some(v)) is <<v>>.
opt_getter(data, offset, tag, index) ==
    IF index = 0 THEN Value(<<>>)
    ELSE LET got == getter(data, offset, tag, index) IN
         IF ~IsOk(got) THEN got ELSE Value(<<got.value>>)


\* constants.rs is not among the sources read; the specification says
\* "rejected when major > latest supported".  Any u16 serves.
LATEST_MAJOR_VERSION == 66

Magic == <<202, 254, 186, 190>>

\* A constructor that parses the pool before it looks at the magic and the version.
ClassReaderNewPoolFirst(data) ==
    IF ~IsOk(ConstantPoolNew(data)) THEN ConstantPoolNew(data)
    ELSE IF read_bytes(data, 0, 4).bytes # Magic
    THEN [err |-> [kind |-> "BadMagic"], offset |-> <<>>, metadata_start |-> 0]
    ELSE IF read_u16(data, 6).value > LATEST_MAJOR_VERSION
    THEN [err |-> [kind |-> "UnsupportedVersion", major |-> read_u16(data, 6).value],
          offset |-> <<>>, metadata_start |-> 0]
    ELSE ConstantPoolNew(data)

\* lines 96-118: ClassReader::new: the magic, the major version, then the pool.
ClassReaderNew(data) ==
    IF ~IsOk(read_bytes(data, 0, 4))
    THEN [err |-> read_bytes(data, 0, 4).err, offset |-> <<>>, metadata_start |-> 0]
    ELSE IF read_bytes(data, 0, 4).bytes # Magic
    THEN [err |-> [kind |-> "BadMagic"], offset |-> <<>>, metadata_start |-> 0]
    ELSE IF ~IsOk(read_u16(data, 6))
    THEN [err |-> read_u16(data, 6).err, offset |-> <<>>, metadata_start |-> 0]
    ELSE IF read_u16(data, 6).value > LATEST_MAJOR_VERSION
    THEN [err |-> [kind |-> "UnsupportedVersion", major |-> read_u16(data, 6).value],
          offset |-> <<>>, metadata_start |-> 0]
    ELSE ConstantPoolNew(data)

\* lines 315-323: where next() leaves the index: one past, and one more past
\* a hole that is not the last slot.
Advance(offset, index, cp_max) ==
    IF offset[index + 1] = 0 /\ index + 1 < cp_max THEN index + 2 ELSE index + 1

\* lines 309-328: ConstantPoolIntoIter::next.  With an empty offset table
\* `offset.len() - 1` overflows: a panic where overflow is checked, and where
\* it is not cp_max is 65535 and `offset[1]` is out of bounds, a panic too.
IntoIterNext(data, offset, index) ==
    IF DOMAIN offset = {}
    THEN [index |-> index, kind |-> "panic", item |-> <<>>]
    ELSE LET cp_max == Cardinality(DOMAIN offset) - 1 IN
         IF index = cp_max
         THEN [index |-> index, kind |-> "None", item |-> <<>>]
         ELSE LET next == Advance(offset, index, cp_max) IN
              IF offset[next] = 0
              THEN [index |-> next, kind |-> "None", item |-> <<>>]
              ELSE [index |-> next, kind |-> "Some", item |-> <<get(data, offset, next)>>]

(***************************************************************************)
(* The files read: a header and a constant pool, encoded as the JVM        *)
(* specification lays them out.                                            *)
(***************************************************************************)
MaxPoolTail == 2

\* The byte of a tag; 2 is the byte of no tag.
TagByte(tag) ==
    IF tag = "None" THEN 2 ELSE CHOOSE b \in DOMAIN ConstantPoolTag : ConstantPoolTag[b] = tag

Entry(tag, payload) == [tag |-> tag, payload |-> payload]

Utf8Entry == Entry("Utf8", BE16(1) \o <<97>>)

IntegerEntry == Entry("Integer", <<0, 0, 0, 7>>)

LongEntry == Entry("Long", <<0, 0, 0, 0, 0, 0, 0, 9>>)

DoubleEntry == Entry("Double", <<64, 0, 0, 0, 0, 0, 0, 0>>)

\* A pool with an entry of every tag; entry 7 is a MethodHandle of the kind
\* byte and reference index given.  Entries 16 and 18 take two slots.
TypedPool(kind, ref_index) ==
    <<Utf8Entry, Entry("Class", BE16(1)), Entry("NameAndType", BE16(1) \o BE16(1)),
      Entry("FieldRef", BE16(2) \o BE16(3)), Entry("MethodRef", BE16(2) \o BE16(3)),
      Entry("InterfaceMethodRef", BE16(2) \o BE16(3)),
      Entry("MethodHandle", <<kind>> \o BE16(ref_index)),
      Entry("String", BE16(1)), Entry("MethodType", BE16(1)),
      Entry("Dynamic", BE16(0) \o BE16(3)), Entry("InvokeDynamic", BE16(0) \o BE16(3)),
      Entry("Module", BE16(1)), Entry("Package", BE16(1)),
      IntegerEntry, Entry("Float", <<63, 128, 0, 0>>), LongEntry, DoubleEntry>>

RECURSIVE SlotsOf(_)
\* The slots the entries take: a Long or a Double takes two.
SlotsOf(entries) ==
    IF entries = <<>> THEN 0 ELSE Slots(Head(entries).tag) + SlotsOf(Tail(entries))

PoolBytes(entries) ==
    Concat([j \in DOMAIN entries |-> <<TagByte(entries[j].tag)>> \o entries[j].payload])

\* What follows the pool: access flags, this_class, super_class and five
\* empty counts.
AfterPool == <<0, 33, 0, 2, 0, 0, 0, 0, 0, 0, 0, 0, 0, 0>>

\* A file: its bytes, and the pool it was encoded from.
File(magic, major, count, entries) ==
    [data |-> magic \o BE16(0) \o BE16(major) \o BE16(count) \o PoolBytes(entries) \o AfterPool,
     count |-> count, entries |-> entries]

\* The bytes of a file cut to a length.
Cut(file, len) == [file EXCEPT !.data = SubSeq(file.data, 1, len)]

Tails == SeqsOver({Utf8Entry, IntegerEntry, LongEntry, DoubleEntry}, 0..MaxPoolTail)

Files ==
    \* pools of one- and two-slot entries, the count declared as the JVM
    \* specification has it (slots + 1) or one short of it
    {File(Magic, LATEST_MAJOR_VERSION, SlotsOf(t) + 1, t) : t \in Tails}
    \cup {File(Magic, LATEST_MAJOR_VERSION, SlotsOf(t), t) : t \in Tails}
    \* a pool with every tag, over the method handles
    \cup {File(Magic, LATEST_MAJOR_VERSION, 20, TypedPool(kr[1], kr[2])) :
            kr \in ((1..9) \X {1, 4, 5, 6, 7}) \cup {<<0, 5>>, <<10, 5>>}}
    \* wrong magic, wrong version, over a pool that is sound, has a byte that
    \* is no tag, or names more entries than the file holds
    \cup {File(hv[1], hv[2], hv[3], <<Utf8Entry, Entry("Class", BE16(1))>>) :
            hv \in {Magic, <<0, 0, 0, 0>>, <<202, 254, 186, 191>>}
                      \X {LATEST_MAJOR_VERSION, LATEST_MAJOR_VERSION + 1, 45}
                      \X {3, 40}}
    \cup {File(hv[1], hv[2], 2, <<Entry("None", <<>>)>>) :
            hv \in {Magic, <<0, 0, 0, 0>>} \X {LATEST_MAJOR_VERSION, LATEST_MAJOR_VERSION + 1}}
    \* files that end in the header or in the pool
    \cup {Cut(File(Magic, LATEST_MAJOR_VERSION, 3, <<Utf8Entry, LongEntry>>), len) :
            len \in 0..22}


InitPool ==
    /\ cp_file \in Files
    /\ cp_reader = <<>>
    /\ cp_status = "new"
    /\ cp_call = <<>>
    /\ cp_iter = 0
    /\ cp_out = <<>>
    /\ CpRest

\* class_reader.rs 96-118: ClassReader::new(data, flags).
New ==
    /\ cp_status = "new"
    /\ cp_reader' = ClassReaderNew(cp_file.data)
    /\ cp_status' = IF IsOk(cp_reader') THEN "ready" ELSE "failed"
    /\ UNCHANGED <<cp_file, cp_call, cp_iter, cp_out, cpOthers>>

\* The indices the accessors of the pool are called with: every slot, 0 and
\* the first index past the table.
Indices == IF cp_status = "ready" THEN 0..Cardinality(DOMAIN cp_reader.offset) ELSE {}

Called(fn, tag, index, ret) == [fn |-> fn, tag |-> tag, index |-> index, ret |-> ret]

\* One call of an accessor is looked at, on the reader before its pool is iterated.
Callable == cp_status = "ready" /\ cp_call = <<>> /\ cp_iter = 0 /\ cp_out = <<>>

\* constant_pool.rs 139-142: constant_pool.get_type(index).
GetType(index) ==
    /\ Callable
    /\ cp_call' = Called("get_type", "", index, get_type(cp_file.data, cp_reader.offset, index))
    /\ UNCHANGED <<cp_file, cp_reader, cp_status, cp_iter, cp_out, cpOthers>>

\* constant_pool.rs 173-182: constant_pool.get(index).
GetEntry(index) ==
    /\ Callable
    /\ cp_call' = Called("get", "", index, get(cp_file.data, cp_reader.offset, index))
    /\ UNCHANGED <<cp_file, cp_reader, cp_status, cp_iter, cp_out, cpOthers>>

\* constant_pool.rs 184-193: the typed accessor of a tag: get_utf8, get_class, ...
Getter(tag, index) ==
    /\ Callable
    /\ cp_call' = Called("getter", tag, index, getter(cp_file.data, cp_reader.offset, tag, index))
    /\ UNCHANGED <<cp_file, cp_reader, cp_status, cp_iter, cp_out, cpOthers>>

\* constant_pool.rs 195-200: the optional accessor of a tag: get_optional_utf8, ...
OptGetter(tag, index) ==
    /\ Callable
    /\ cp_call' = Called("opt_getter", tag, index,
                         opt_getter(cp_file.data, cp_reader.offset, tag, index))
    /\ UNCHANGED <<cp_file, cp_reader, cp_status, cp_iter, cp_out, cpOthers>>

\* class_reader.rs 128-132: reader.major_version(); the `expect` cannot fail
\* on a reader that ClassReader::new has returned.
MajorVersion ==
    /\ Callable
    /\ cp_call' = Called("major_version", "", 0, read_u16(cp_file.data, 6))
    /\ UNCHANGED <<cp_file, cp_reader, cp_status, cp_iter, cp_out, cpOthers>>

\* class_reader.rs 134-138: reader.minor_version(), which the Class event
\* carries too (class_internal, 506-516).
MinorVersion ==
    /\ Callable
    /\ cp_call' = Called("minor_version", "", 0, read_u16(cp_file.data, 8))
    /\ UNCHANGED <<cp_file, cp_reader, cp_status, cp_iter, cp_out, cpOthers>>

\* constant_pool.rs 291-328: (&constant_pool).into_iter() and its next().
\* A None after a None leaves the record of the iteration as it is.  The
\* iteration is looked at on a reader none of whose accessors was called.
IterNext ==
    /\ cp_status = "ready"
    /\ cp_call = <<>>
    /\ LET r == IntoIterNext(cp_file.data, cp_reader.offset, cp_iter) IN
       /\ cp_iter' = r.index
       /\ cp_status' = IF r.kind = "panic" THEN "panicked" ELSE "ready"
       /\ cp_out' = IF \/ r.kind = "panic"
                       \/ r.kind = "None" /\ cp_out # <<>> /\ Last(cp_out).kind = "None"
                    THEN cp_out
                    ELSE Append(cp_out, r)
    /\ UNCHANGED <<cp_file, cp_reader, cp_call, cpOthers>>

NextPool ==
    \/ New
    \/ \E index \in Indices : GetType(index)
    \/ \E index \in Indices : GetEntry(index)
    \/ \E tag \in Tags, index \in Indices : Getter(tag, index)
    \/ \E tag \in Tags, index \in Indices : OptGetter(tag, index)
    \/ IterNext
    \/ MajorVersion
    \/ MinorVersion

SpecPool == InitPool /\ [][NextPool]_vars


(***************************************************************************)
(* What the specification says of the constant pool, stated over the pool  *)
(* the file was encoded from.                                              *)
(***************************************************************************)
RECURSIVE SlotTags(_)
\* The tag of each slot from slot 1 on; the slot after a Long or Double is a "hole".
SlotTags(entries) ==
    IF entries = <<>> THEN <<>>
    ELSE (IF Slots(Head(entries).tag) = 2 THEN <<Head(entries).tag, "hole">>
          ELSE <<Head(entries).tag>>) \o SlotTags(Tail(entries))

\* The tag of the entry the file declares at an index: constant_pool_count
\* declares the indices 1..count-1.  "none" where it declares no entry.
DeclaredTag(index) ==
    IF index \in 1..(cp_file.count - 1) /\ index \in DOMAIN SlotTags(cp_file.entries)
    THEN SlotTags(cp_file.entries)[index]
    ELSE "none"

HasCalled(fns) == cp_status = "ready" /\ cp_call # <<>> /\ cp_call.fn \in fns

\* C12: for every Long or Double entry at index i, wherever it sits in the
\* pool, get, get_type and every typed accessor called with i + 1 return
\* Err(BadConstantPoolIndexNoEntry(i + 1)).
C12_HoleAfterLongDouble ==
    (/\ HasCalled({"get", "get_type", "getter", "opt_getter"})
     /\ DeclaredTag(cp_call.index - 1) \in {"Long", "Double"})
        => cp_call.ret.err = [kind |-> "BadConstantPoolIndexNoEntry", index |-> cp_call.index]

\* The indices 1..count-1 that are not holes, ascending.
PresentIndices ==
    SelectSeq([i \in 1..(cp_file.count - 1) |-> i], LAMBDA i : DeclaredTag(i) # "hole")

\* C13: iterating a ConstantPool yields the entries at the indices
\* 1..count-1 that are not holes, each once and in ascending order, then
\* None: what has been yielded so far is get(index) for a prefix of those
\* indices, all of them once None is returned, and no call panics.
C13_IterationYieldsPresentEntries ==
    /\ cp_status # "panicked"
    /\ cp_status = "ready" /\ cp_call = <<>> =>
          LET items == SelectSeq(cp_out, LAMBDA r : r.kind = "Some") IN
          /\ IsPrefix([j \in DOMAIN items |-> items[j].index], PresentIndices)
          /\ \A j \in DOMAIN items :
                items[j].item = <<get(cp_file.data, cp_reader.offset, items[j].index)>>
          /\ \A j \in DOMAIN cp_out : cp_out[j].kind = "None" => j = Len(cp_out)
          /\ (cp_out # <<>> /\ Last(cp_out).kind = "None") => Len(items) = Len(PresentIndices)

\* C35: a class file whose constant_pool_count is 0 is accepted by
\* ClassReader::new, and iterating the constant pool of that reader returns
\* None at once: no next() panics and nothing but None is returned.
C35_EmptyPoolIterates ==
    cp_file.count = 0 /\ Len(cp_file.data) >= 10 + Len(AfterPool) /\ cp_status # "new" =>
        /\ cp_status \notin {"failed", "panicked"}
        /\ \A j \in DOMAIN cp_out : cp_out[j].kind = "None"

\* C14: a typed accessor get_X(index) on an entry whose tag is not X returns
\* Err(BadConstantPoolType{expected: X, actual: the tag}) and returns a value
\* only from an entry of tag X; it rejects index 0, and get_optional_X(0)
\* returns Ok(None).
C14_TypedAccessorsCheckTag ==
    /\ HasCalled({"getter"}) =>
          /\ DeclaredTag(cp_call.index) \notin {"none", "hole", cp_call.tag} =>
                cp_call.ret.err = BadConstantPoolType(cp_call.tag, DeclaredTag(cp_call.index))
          /\ IsOk(cp_call.ret) => DeclaredTag(cp_call.index) = cp_call.tag
          /\ cp_call.index = 0 => ~IsOk(cp_call.ret)
    /\ HasCalled({"opt_getter"}) =>
          /\ cp_call.index = 0 => cp_call.ret = Value(<<>>)
          /\ DeclaredTag(cp_call.index) \notin {"none", "hole", cp_call.tag} =>
                cp_call.ret.err = BadConstantPoolType(cp_call.tag, DeclaredTag(cp_call.index))
          /\ (cp_call.index # 0 /\ IsOk(cp_call.ret)) => DeclaredTag(cp_call.index) = cp_call.tag

\* get_class on a Utf8 entry has been refused and get_optional_class(0) has
\* returned Ok(None) on another run; this is the first.
C14_Witness ==
    /\ HasCalled({"getter"})
    /\ cp_call.tag = "Class"
    /\ DeclaredTag(cp_call.index) = "Utf8"
    /\ cp_call.ret.err = BadConstantPoolType("Class", "Utf8")

\* The kind byte and the reference index of the MethodHandle entry called for.
HandleKindByte == cp_file.entries[cp_call.index].payload[1]

HandleRefTag ==
    DeclaredTag(cp_file.entries[cp_call.index].payload[2] * 256
                   + cp_file.entries[cp_call.index].payload[3])

\* The tags a handle of a kind may refer to.
AllowedRef(kind) ==
    CASE kind \in {"GetField", "GetStatic", "PutField", "PutStatic"} -> {"FieldRef"}
      [] kind \in {"InvokeVirtual", "NewInvokeSpecial"} -> {"MethodRef"}
      [] kind = "InvokeInterface" -> {"InterfaceMethodRef"}
      [] kind \in {"InvokeStatic", "InvokeSpecial"} -> {"MethodRef", "InterfaceMethodRef"}

\* A call of get_method_handle on a MethodHandle entry of a sound kind, in a
\* pool where no slot before it is a hole.
OnMethodHandle ==
    /\ HasCalled({"getter"})
    /\ cp_call.tag = "MethodHandle"
    /\ DeclaredTag(cp_call.index) = "MethodHandle"
    /\ HandleKindByte \in DOMAIN HandleKind

\* C15: get_method_handle dispatches on the handle kind: the field kinds
\* need a FieldRef, InvokeVirtual and NewInvokeSpecial a MethodRef,
\* InvokeInterface an InterfaceMethodRef, InvokeStatic and InvokeSpecial
\* either of the method references; is_interface of the Handle is true
\* exactly when the entry referred to is an InterfaceMethodRef, and a
\* reference to an entry of another tag fails with BadConstantPoolType.
C15_MethodHandleDispatch ==
    OnMethodHandle =>
        IF HandleRefTag \in AllowedRef(HandleKind[HandleKindByte])
        THEN /\ IsOk(cp_call.ret)
             /\ cp_call.ret.value[1] = <<HandleKindByte>>
             /\ cp_call.ret.value[5] = <<IF HandleRefTag = "InterfaceMethodRef" THEN 1 ELSE 0>>
        ELSE cp_call.ret.err.kind = "BadConstantPoolType"

\* An InvokeStatic handle on an InterfaceMethodRef, resolved with is_interface set.
C15_Witness ==
    /\ OnMethodHandle
    /\ HandleKind[HandleKindByte] = "InvokeStatic"
    /\ HandleRefTag = "InterfaceMethodRef"
    /\ IsOk(cp_call.ret)
    /\ cp_call.ret.value[5] = <<1>>

\* C16: ClassReader::new returns Err(BadMagic) whenever the first four bytes
\* are not 0xCAFEBABE and Err(UnsupportedVersion(major)) whenever the magic
\* is right and the major version, the u16 at byte 6, is above
\* LATEST_MAJOR_VERSION, whatever the constant pool that follows is like.
C16_MagicAndVersionFirst ==
    cp_status \in {"ready", "failed", "panicked"} =>
        /\ (Len(cp_file.data) >= 4 /\ SubSeq(cp_file.data, 1, 4) # Magic) =>
              cp_reader.err = [kind |-> "BadMagic"]
        /\ (/\ Len(cp_file.data) >= 8
            /\ SubSeq(cp_file.data, 1, 4) = Magic
            /\ cp_file.data[7] * 256 + cp_file.data[8] > LATEST_MAJOR_VERSION) =>
              cp_reader.err = [kind |-> "UnsupportedVersion",
                               major |-> cp_file.data[7] * 256 + cp_file.data[8]]

\* A file with the wrong magic, a version too high and a pool that cannot be
\* parsed, refused for its magic.
C16_Witness ==
    /\ cp_status = "failed"
    /\ cp_reader.err = [kind |-> "BadMagic"]
    /\ cp_file.data[7] * 256 + cp_file.data[8] > LATEST_MAJOR_VERSION
    /\ ~IsOk(ConstantPoolNew(cp_file.data))


(***************************************************************************)
(* ClassBuffer as an embedder uses it (class_reader.rs 201-282): its       *)
(* methods are public and take any usize.  `index + len` of read_bytes     *)
(* panics on overflow in a build with overflow checks and wraps in one     *)
(* without: both outcomes are kept.                                        *)
(***************************************************************************)
MaxBufferLen == 4

\* Buffers of every length up to the bound, every byte different.
Buffers == {[i \in 1..n |-> 10 + i] : n \in 0..MaxBufferLen}

\* The usize values calls are made with: in, at and past the end, and the
\* last values of the usize range.
Probes == (0..(MaxBufferLen + 1)) \cup {-1, -2, -8}

BufferPanic == [err |-> [kind |-> "panic"], bytes |-> <<>>]

\* lines 262-269: the outcomes of read_bytes(index, len) over the builds.
ReadBytesOutcomes(data, index, len) ==
    IF UsizeAddOverflows(index, len) THEN {BufferPanic, read_bytes(data, index, len)}
    ELSE {read_bytes(data, index, len)}

InitBuffer ==
    /\ bf_origin \in Buffers
    /\ bf_base = 0
    /\ bf_data = bf_origin
    /\ bf_call = <<>>
    /\ bf_status = "ok"
    /\ BfRest

BufferCall(fn, a, b, ret) == [fn |-> fn, a |-> a, b |-> b, on |-> bf_data, ret |-> ret]

\* lines 207-212 and 222-260: read_u8 .. read_f64 by way of read_array::<N>(index).
ReadArray(N, index) ==
    /\ bf_status = "ok"
    /\ \E out \in ReadBytesOutcomes(bf_data, index, N) :
          /\ bf_call' = BufferCall("read_array", index, N, out)
          /\ bf_status' = IF out = BufferPanic THEN "panicked" ELSE "ok"
    /\ UNCHANGED <<bf_origin, bf_base, bf_data, bfOthers>>

\* lines 262-269: read_bytes(index, len).
ReadBytesCall(index, len) ==
    /\ bf_status = "ok"
    /\ \E out \in ReadBytesOutcomes(bf_data, index, len) :
          /\ bf_call' = BufferCall("read_bytes", index, len, out)
          /\ bf_status' = IF out = BufferPanic THEN "panicked" ELSE "ok"
    /\ UNCHANGED <<bf_origin, bf_base, bf_data, bfOthers>>

\* lines 271-281: slice(from..to); the cursor returned is the one at hand from then on.
SliceCall(from, to) ==
    /\ bf_status = "ok"
    /\ LET r == slice(bf_data, from, to) IN
       /\ bf_call' = BufferCall("slice", from, to, [err |-> r.err, bytes |-> r.data])
       /\ bf_data' = IF IsOk(r) THEN r.data ELSE bf_data
       /\ bf_base' = IF IsOk(r) THEN bf_base + from ELSE bf_base
    /\ UNCHANGED <<bf_origin, bf_status, bfOthers>>

NextBuffer ==
    \/ \E N \in {1, 2, 4, 8}, index \in Probes : ReadArray(N, index)
    \/ \E index \in Probes, len \in Probes : ReadBytesCall(index, len)
    \/ \E from \in Probes, to \in Probes : SliceCall(from, to)

SpecBuffer == InitBuffer /\ [][NextBuffer]_vars

\* The bytes a..b-1 of a buffer are all there: a <= b <= len on usize.
InBuffer(data, a, b) == a >= 0 /\ b >= a /\ b <= Len(data)

\* C17: a ClassBuffer read of width N at index i returns Ok exactly when
\* i + N <= len, and the bytes of the buffer at i; otherwise it returns
\* Err(OutOfBounds{index, len}) with len the length of the buffer, and it
\* never panics.  slice(range) returns Ok exactly when the range lies within
\* the buffer, and the cursor it returns holds the bytes of the range only.
C17_ReadsAreBoundsChecked ==
    /\ bf_status # "panicked"
    /\ (bf_status = "ok" /\ bf_call # <<>>) =>
          /\ bf_call.fn \in {"read_array", "read_bytes"} =>
                /\ IsOk(bf_call.ret) <=>
                      (bf_call.b >= 0 /\ InBuffer(bf_call.on, bf_call.a, bf_call.a + bf_call.b))
                /\ IsOk(bf_call.ret) =>
                      bf_call.ret.bytes = SubSeq(bf_origin, bf_base + bf_call.a + 1,
                                                 bf_base + bf_call.a + bf_call.b)
                /\ ~IsOk(bf_call.ret) =>
                      /\ bf_call.ret.err.kind = "OutOfBounds"
                      /\ bf_call.ret.err.len = Len(bf_call.on)
          /\ bf_call.fn = "slice" =>
                /\ IsOk(bf_call.ret) <=> InBuffer(bf_call.on, bf_call.a, bf_call.b)
                /\ IsOk(bf_call.ret) =>
                      /\ bf_data = SubSeq(bf_call.on, bf_call.a + 1, bf_call.b)
                      /\ bf_data = SubSeq(bf_origin, bf_base + 1, bf_base + Len(bf_data))
                /\ ~IsOk(bf_call.ret) =>
                      /\ bf_call.ret.err.kind = "OutOfBounds"
                      /\ bf_call.ret.err.len = Len(bf_call.on)


(***************************************************************************)
(* One method drained by a reader with flags and by a reader without       *)
(* (class_reader.rs 76-83: SkipCode, SkipDebug, SkipFrames).               *)
(***************************************************************************)
SkipFlags == {"SkipCode", "SkipDebug", "SkipFrames"}

\* return, with its tables in another order: the frames first.
CodeD ==
    CodeOf(<<Jump(167, 3), Plain(0), Plain(177)>>, <<>>,
           <<StackMap, InvisibleTypeAnnotations, LocalVariables, LineNumbers>>)

FlaggedMethods ==
    {Method(names, {}, code) :
        names \in {{}, {"MethodParameters"}, {"MethodParameters", "Deprecated", "Custom"},
                   MethodAttributeNames},
        code \in {None, Some(CodeA), Some(CodeB), Some(CodeC), Some(CodeD)}}

InitFlags ==
    /\ fl_method \in FlaggedMethods
    /\ fl_flags \in SUBSET SkipFlags
    /\ fl_with = ClassMethodsIteratorEvent(fl_method, fl_flags)
    /\ fl_without = ClassMethodsIteratorEvent(fl_method, {})
    /\ fl_out_with = <<>>
    /\ fl_out_without = <<>>
    /\ FlRest

\* A reader is drained up to its first None or Err.
Drained(out) == out # <<>> /\ Last(out).kind \in {"None", "Err", "panic", "hang"}

\* lines 1648-1911: next() of the reader with the flags.
NextWithFlags ==
    /\ ~Drained(fl_out_with)
    /\ \E checked \in BOOLEAN :
          LET r == MethodReaderEventsNext(fl_with, fl_method, fl_flags, checked) IN
          /\ fl_with' = r.self
          /\ fl_out_with' = Append(fl_out_with, r.ret)
    /\ UNCHANGED <<fl_method, fl_flags, fl_without, fl_out_without, flOthers>>

\* lines 1648-1911: next() of the reader without flags, drained after the first.
NextWithoutFlags ==
    /\ Drained(fl_out_with)
    /\ ~Drained(fl_out_without)
    /\ \E checked \in BOOLEAN :
          LET r == MethodReaderEventsNext(fl_without, fl_method, {}, checked) IN
          /\ fl_without' = r.self
          /\ fl_out_without' = Append(fl_out_without, r.ret)
    /\ UNCHANGED <<fl_method, fl_flags, fl_with, fl_out_with, flOthers>>

NextFlags ==
    \/ NextWithFlags
    \/ NextWithoutFlags

SpecFlags == InitFlags /\ [][NextFlags]_vars

\* The events of the code of a method.
CodeLevel ==
    {"Code", "Label", "LineNumber", "Frame", "Insn", "InsnAnnotations", "LocalVariables",
     "LocalVariableAnnotations", "TryCatchBlocks", "TryCatchBlockAnnotations",
     "CodeAttributes", "Maxs"}

\* The events the specification names for a set of flags.
NamedBy(flags) ==
    (IF "SkipDebug" \in flags THEN {"LineNumber", "LocalVariables"} ELSE {})
        \cup (IF "SkipCode" \in flags THEN CodeLevel ELSE {})
        \cup (IF "SkipFrames" \in flags THEN {"Frame"} ELSE {})

\* The events the code leaves out for a set of flags: MethodParameters is
\* not read under SkipDebug (lines 1363-1371).
LeftOutBy(flags) ==
    NamedBy(flags) \cup (IF "SkipDebug" \in flags THEN {"Parameters"} ELSE {})

\* What an event is, without the state of the reader that returned it; the
\* None that ends a drain is no event.
EventOf(r) == [kind |-> r.kind, at |-> r.at, labels |-> r.labels, maxs |-> r.maxs]

Except(out, kinds) ==
    LET kept == SelectSeq(out, LAMBDA r : r.kind \notin kinds \cup {"None"}) IN
    [j \in DOMAIN kept |-> EventOf(kept[j])]

EventKinds(out) == {out[j].kind : j \in DOMAIN out}

\* Both readers are drained and the one without flags has met no error.
BothDrained ==
    /\ Drained(fl_out_with)
    /\ Drained(fl_out_without)
    /\ Last(fl_out_without).kind = "None"

KindsExcept(out, kinds) ==
    LET kept == SelectSeq(out, LAMBDA r : r.kind \notin kinds \cup {"Label", "None"}) IN
    [j \in DOMAIN kept |-> <<kept[j].kind, kept[j].at>>]

C19_NoPanicAfterErr ==
    (/\ mr_out # <<>>
     /\ \E j \in DOMAIN Last(mr_out) : Last(mr_out)[j].kind = "Err")
        => mr_status # "panicked"


(***************************************************************************)
(* Proper prefixes of well-formed class files, cut anywhere after the      *)
(* interfaces (a cut before them is met by ClassReader::new or by the      *)
(* first reads of events()), read by a reader without flags.  The classes  *)
(* have the attributes whose reading this model follows to the last byte.  *)
(***************************************************************************)
FullyFollowed ==
    {"Custom", "BootstrapMethods", "Deprecated", "Synthetic", "Signature", "SourceFile",
     "SourceDebugExtension", "NestHost", "EnclosingMethod"}

MaxCutAttrs == 2

CutClasses ==
    {ClassFile(names, {}, {}, counts[1], counts[2], FALSE) :
        names \in {ns \in SUBSET FullyFollowed : Cardinality(ns) <= MaxCutAttrs}
                     \cup {FullyFollowed},
        counts \in {<<0, 0>>, <<1, 1>>}}

InitTruncated ==
    /\ cr_class \in CutClasses
    /\ \E len \in 0..(Len(ClassBytes(cr_class)) - 1), checks \in BOOLEAN :
          cr_reader = [buffer |-> [base |-> FieldsCountOffset,
                                   bytes |-> SubSeq(ClassBytes(cr_class), 1, len)],
                       reader_flags |-> {}, overflow_checks |-> checks]
    /\ cr = <<>>
    /\ cr_status = "new"
    /\ cr_out = <<>>
    /\ ca = <<>>
    /\ ca_out = <<>>
    /\ CrRest

SpecTruncated == InitTruncated /\ [][NextClass]_vars

\* The events of the class and the custom attributes they carry are drained.
ClassDrained ==
    /\ cr_status \in {"active", "panicked"}
    /\ cr_out # <<>>
    /\ Last(cr_out).kind = "None"
    /\ "Attributes" \in {cr_out[j].kind : j \in DOMAIN cr_out} => ca.index = Len(ca.offsets)

\* C20: on a proper prefix of a well-formed class file ClassReader::new,
\* events() or a next() of the drain of its iterators returns an error, and
\* no step of the drain, which ends at the first None, panics.
C20_EveryTruncationFails ==
    /\ cr_status = "panicked" => cr_out # <<>> /\ Last(cr_out).kind = "None"
    /\ ClassDrained =>
          \/ \E j \in DOMAIN cr_out : cr_out[j].kind = "Err"
          \/ \E j \in DOMAIN ca_out : ca_out[j].kind = "Err"


(***************************************************************************)
(* What the specification says of the annotation events of a method.       *)
(***************************************************************************)
\* The method at hand has an attribute of one of the names.
MethodHas(names) == \E j \in DOMAIN cm_methods[cm_current] : cm_methods[cm_current][j].name \in names

\* The reader of the method at hand has returned from a state past 3 and 4
\* in its first pass over the states.
PastAnnotationStates ==
    /\ mr_status = "active"
    /\ mr_out # <<>>
    /\ \E j \in 1..Len(Last(mr_out)) :
          j <= Len(Yielded(Last(mr_out))) + 1 /\ Last(mr_out)[j].state >= 5

\* C21: a method's Annotations event is emitted if and only if the method
\* has a RuntimeVisibleAnnotations or a RuntimeInvisibleAnnotations
\* attribute, and its TypeAnnotations event if and only if it has a
\* RuntimeVisibleTypeAnnotations or a RuntimeInvisibleTypeAnnotations
\* attribute.
C21_MethodAnnotationsEvents ==
    PastAnnotationStates =>
        /\ "Annotations" \in EventKinds(Yielded(Last(mr_out)))
              <=> MethodHas({"RuntimeVisibleAnnotations", "RuntimeInvisibleAnnotations"})
        /\ "TypeAnnotations" \in EventKinds(Yielded(Last(mr_out)))
              <=> MethodHas({"RuntimeVisibleTypeAnnotations", "RuntimeInvisibleTypeAnnotations"})


(***************************************************************************)
(* The events of a field: ClassFieldsIterator and FieldReaderEvents        *)
(* (class_reader.rs 1157-1270 and 1459-1540).  The attributes are well     *)
(* formed; the k-th attribute of the field stands at offset k.             *)
(***************************************************************************)
MaxFieldAttrs == 2

FieldAttributeOrder ==
    <<"ConstantValue", "Deprecated", "RuntimeInvisibleAnnotations",
      "RuntimeInvisibleTypeAnnotations", "RuntimeVisibleAnnotations",
      "RuntimeVisibleTypeAnnotations", "Signature", "Synthetic", "Custom">>

Fields ==
    {SelectSeq(FieldAttributeOrder, LAMBDA n : n \in names) :
        names \in {ns \in SUBSET KindsOf(FieldAttributeOrder) : Cardinality(ns) <= MaxFieldAttrs}
                     \cup {KindsOf(FieldAttributeOrder)}}

NewFieldReaderEvents ==
    [invisible_annotations_offset |-> 0, invisible_type_annotations_offset |-> 0,
     is_deprecated |-> FALSE, visible_annotations_offset |-> 0,
     visible_type_annotations_offset |-> 0, custom_attributes_offsets |-> <<>>, state |-> 0]

RECURSIVE ScanFieldAttributes(_, _, _)
\* lines 1185-1245: the attribute loop of the read function of ClassFieldsIterator.
ScanFieldAttributes(ev, attributes, k) ==
    IF k > Len(attributes) THEN ev
    ELSE ScanFieldAttributes(
            CASE attributes[k] = "Deprecated" -> [ev EXCEPT !.is_deprecated = TRUE]
              [] attributes[k] = "RuntimeInvisibleAnnotations" ->
                    [ev EXCEPT !.invisible_annotations_offset = k]
              [] attributes[k] = "RuntimeInvisibleTypeAnnotations" ->
                    [ev EXCEPT !.invisible_type_annotations_offset = k]
              [] attributes[k] = "RuntimeVisibleAnnotations" ->
                    [ev EXCEPT !.visible_annotations_offset = k]
              [] attributes[k] = "RuntimeVisibleTypeAnnotations" ->
                    [ev EXCEPT !.visible_type_annotations_offset = k]
              [] attributes[k] \in {"ConstantValue", "Signature", "Synthetic"} -> ev
              [] OTHER -> [ev EXCEPT !.custom_attributes_offsets = Append(@, k)],
            attributes, k + 1)

FieldItem(kind, state) == [kind |-> kind, state |-> state]

RECURSIVE FieldReaderEventsNext(_, _)
\* lines 1507-1539: FieldReaderEvents::next.  `self.state += 1` on the u8
\* state panics at 255 where overflow checks are compiled in and wraps to 0
\* where they are not.
FieldReaderEventsNext(self, checked) ==
    LET state == self.state IN
    IF state = U8Max /\ checked
    THEN [self |-> self, ret |-> FieldItem("panic", state)]
    ELSE LET after == [self EXCEPT !.state = (state + 1) % (U8Max + 1)]
             emits ==
                CASE state = 0 -> self.is_deprecated
                  [] state = 1 -> /\ self.visible_annotations_offset # 0
                                  /\ self.invisible_annotations_offset # 0
                  [] state = 2 -> /\ self.visible_type_annotations_offset # 0
                                  /\ self.invisible_type_annotations_offset # 0
                  [] state = 3 -> self.custom_attributes_offsets # <<>>
                  [] OTHER -> FALSE
         IN  IF state > 3 THEN [self |-> after, ret |-> FieldItem("None", state)]
             ELSE IF emits
             THEN [self |-> after,
                   ret |-> FieldItem(<<"Deprecated", "Annotations", "TypeAnnotations",
                                       "Attributes">>[state + 1], state)]
             ELSE FieldReaderEventsNext(after, checked)

InitField ==
    /\ fd_attrs \in Fields
    /\ fd_checks \in BOOLEAN
    /\ fd = <<>>
    /\ fd_status = "new"
    /\ fd_out = <<>>
    /\ FdRest

\* lines 54-61 with 1157-1270: ClassFieldsIterator::next reads the field.
FieldEvent ==
    /\ fd_status = "new"
    /\ fd' = ScanFieldAttributes(NewFieldReaderEvents, fd_attrs, 1)
    /\ fd_status' = "active"
    /\ UNCHANGED <<fd_attrs, fd_checks, fd_out, fdOthers>>

\* lines 1507-1539: FieldReaderEvents::next, called on after the first None
\* until a few more items have been returned.
FieldNext ==
    /\ fd_status = "active"
    /\ Len(fd_out) - Len(Yielded(fd_out)) <= MaxReplayed
    /\ LET r == FieldReaderEventsNext(fd, fd_checks) IN
       /\ fd' = r.self
       /\ fd_status' = IF r.ret.kind = "panic" THEN "panicked" ELSE "active"
       /\ fd_out' = IF \/ r.ret.kind = "panic"
                       \/ r.ret.kind = "None" /\ fd_out # <<>> /\ Last(fd_out).kind = "None"
                    THEN fd_out
                    ELSE Append(fd_out, r.ret)
    /\ UNCHANGED <<fd_attrs, fd_checks, fdOthers>>

NextField ==
    \/ FieldEvent
    \/ FieldNext

SpecField == InitField /\ [][NextField]_vars

\* C22: a field's Annotations event is emitted whenever the field has at
\* least one of RuntimeVisibleAnnotations and RuntimeInvisibleAnnotations,
\* and its TypeAnnotations event whenever it has at least one of the two
\* type-annotation attributes.
C22_FieldAnnotationsEvents ==
    (fd_out # <<>> /\ Last(fd_out).kind = "None") =>
        /\ KindsOf(fd_attrs) \cap {"RuntimeVisibleAnnotations", "RuntimeInvisibleAnnotations"} # {}
              => "Annotations" \in EventKinds(Yielded(fd_out))
        /\ KindsOf(fd_attrs) \cap {"RuntimeVisibleTypeAnnotations",
                                   "RuntimeInvisibleTypeAnnotations"} # {}
              => "TypeAnnotations" \in EventKinds(Yielded(fd_out))

\* C30: once the FieldReaderEvents has returned None, every later next()
\* returns None and none panics.
C30_NoneAfterNone ==
    /\ fd_status # "panicked"
    /\ \A j \in DOMAIN fd_out : j > Len(Yielded(fd_out)) => fd_out[j].kind = "None"

\* C23: for every attribute of a well-formed class whose name the reader
\* does not know and for which no reader is registered, the iterator of
\* custom attributes yields an UnknownAttribute, made of the name and of the
\* attribute_length bytes after the 6-byte header; that it is yielded at all
\* is what is stated here.
C23_UnknownAttributeYielded ==
    WellFormed(cr_class) => \A j \in DOMAIN ca_out : ca_out[j].kind = "UnknownAttribute"


\* C24: minor_version is reported as the u16 at byte 4 of the file and
\* major_version as the u16 at byte 6, the two fields between the magic and
\* the constant-pool count.
C24_VersionsRead ==
    /\ HasCalled({"major_version"}) =>
          cp_call.ret.value = cp_file.data[7] * 256 + cp_file.data[8]
    /\ HasCalled({"minor_version"}) =>
          cp_call.ret.value = cp_file.data[5] * 256 + cp_file.data[6]


(***************************************************************************)
(* The frames of a stack map table: CodeData::read_frames and              *)
(* read_frame_value over the bytes of the table (class_reader.rs           *)
(* 2770-2913).  The constant pool names a class at every index a frame     *)
(* value gives.                                                            *)
(***************************************************************************)
MaxFrames == 2

\* The length of insn_metadata: the code length plus one.
FrameMetaLen == 70

FrameError(kind) == [kind |-> kind]

\* lines 2878-2913: read_frame_value at offset.
read_frame_value(data, offset) ==
    LET tag == read_u8(data, offset)
        operand == read_u16(data, offset + 1)
    IN  IF ~IsOk(tag) THEN [err |-> tag.err, offset |-> offset, value |-> <<>>]
        ELSE IF tag.value \in 0..6
        THEN [err |-> NoError, offset |-> offset + 1, value |-> [tag |-> tag.value]]
        ELSE IF tag.value = 7
        THEN IF ~IsOk(operand) THEN [err |-> operand.err, offset |-> offset + 1, value |-> <<>>]
             ELSE [err |-> NoError, offset |-> offset + 3,
                   value |-> [tag |-> 7, class |-> operand.value]]
        ELSE IF tag.value = 8
        THEN IF ~IsOk(operand) THEN [err |-> operand.err, offset |-> offset + 1, value |-> <<>>]
             ELSE IF operand.value >= FrameMetaLen
             THEN [err |-> FrameError("CodeOffsetOutOfBounds"), offset |-> offset + 3, value |-> <<>>]
             ELSE [err |-> NoError, offset |-> offset + 3,
                   value |-> [tag |-> 8, label |-> operand.value]]
        ELSE [err |-> FrameError("BadFrameValueTag"), offset |-> offset + 1, value |-> <<>>]

RECURSIVE read_frame_values(_, _, _)

\* A frame value put before the values read after it.
FrameValuesCons(value, rest) ==
    [err |-> rest.err, offset |-> rest.offset,
     values |-> IF IsOk(rest) THEN <<value>> \o rest.values ELSE <<>>]

\* One value read, the values after it are read where it is no error.
FrameValuesAfter(data, count, v) ==
    IF ~IsOk(v) THEN [err |-> v.err, offset |-> v.offset, values |-> <<>>]
    ELSE FrameValuesCons(v.value, read_frame_values(data, v.offset, count - 1))

\* lines 2821-2830, 2838-2859: (0..count).map(read_frame_value).collect(),
\* which stops at the first error.
read_frame_values(data, offset, count) ==
    IF count = 0 THEN [err |-> NoError, offset |-> offset, values |-> <<>>]
    ELSE FrameValuesAfter(data, count, read_frame_value(data, offset))

FrameFailed(err) == [err |-> err, offset |-> 0, offset_delta |-> 0, frame |-> <<>>]

FrameRead(offset, offset_delta, frame) ==
    [err |-> NoError, offset |-> offset, offset_delta |-> offset_delta, frame |-> frame]

\* The frame of one stack value that has been read.
Same1Read(offset_delta, stack_value) ==
    IF ~IsOk(stack_value) THEN FrameFailed(stack_value.err)
    ELSE FrameRead(stack_value.offset, offset_delta,
                   [kind |-> "Same1", stack_value |-> stack_value.value])

\* lines 2793-2797 and 2798-2803: a frame of one stack value standing at
\* offset, with the offset delta already known.
Same1Frame(data, offset, offset_delta) ==
    Same1Read(offset_delta, read_frame_value(data, offset))

\* The append frame of the locals that have been read.
AppendRead(offset_delta, locals) ==
    IF ~IsOk(locals) THEN FrameFailed(locals.err)
    ELSE FrameRead(locals.offset, offset_delta, [kind |-> "Append", locals |-> locals.values])

\* lines 2818-2831: an append frame whose locals stand at offset.
AppendFrame(data, offset, offset_delta, count) ==
    AppendRead(offset_delta, read_frame_values(data, offset, count))

\* The full frame of the locals and the stack that have been read.
FullRead(offset_delta, locals, stack) ==
    IF ~IsOk(stack) THEN FrameFailed(stack.err)
    ELSE FrameRead(stack.offset, offset_delta,
                   [kind |-> "Full", locals |-> locals, stack |-> stack.values])

\* lines 2847-2860: the stack of a full frame, its count standing at offset.
FullFrameStack(data, offset, offset_delta, locals) ==
    LET stack_count == read_u16(data, offset) IN
    IF ~IsOk(stack_count) THEN FrameFailed(stack_count.err)
    ELSE FullRead(offset_delta, locals, read_frame_values(data, offset + 2, stack_count.value))

\* The locals of a full frame read, its stack follows.
FullFrameLocals(data, offset_delta, locals) ==
    IF ~IsOk(locals) THEN FrameFailed(locals.err)
    ELSE FullFrameStack(data, locals.offset, offset_delta, locals.values)

\* lines 2835-2846: the locals of a full frame, their count standing at offset.
FullFrame(data, offset, offset_delta) ==
    LET local_count == read_u16(data, offset) IN
    IF ~IsOk(local_count) THEN FrameFailed(local_count.err)
    ELSE FullFrameLocals(data, offset_delta,
                         read_frame_values(data, offset + 2, local_count.value))

\* lines 2790-2863: the match on frame_type, offset standing after the type byte.
MatchFrameType(data, offset, frame_type) ==
    LET delta == read_u16(data, offset) IN
    CASE frame_type \in 0..63 -> FrameRead(offset, frame_type, [kind |-> "Same"])
      [] frame_type \in 64..127 -> Same1Frame(data, offset, frame_type - 64)
      [] frame_type \in 128..246 -> FrameFailed(FrameError("BadFrameType"))
      [] ~IsOk(delta) -> FrameFailed(delta.err)
      [] frame_type = 247 -> Same1Frame(data, offset + 2, delta.value)
      [] frame_type \in 248..250 ->
           FrameRead(offset + 2, delta.value, [kind |-> "Chop", num_locals |-> 251 - frame_type])
      [] frame_type = 251 -> FrameRead(offset + 2, delta.value, [kind |-> "Same"])
      [] frame_type \in 252..254 -> AppendFrame(data, offset + 2, delta.value, frame_type - 251)
      [] frame_type = 255 -> FullFrame(data, offset + 2, delta.value)

\* The code offset of a frame with the gap between two frames left out.
CodeOffsetNoGap(last_code_offset, offset_delta) ==
    IF last_code_offset = None THEN offset_delta
    ELSE last_code_offset[1] + offset_delta

\* lines 2865-2868: the code offset of the frame read.
CodeOffset(last_code_offset, offset_delta) ==
    IF last_code_offset = None THEN offset_delta
    ELSE last_code_offset[1] + offset_delta + 1

(***************************************************************************)
(* The tables read_frames is run on, assembled as JVMS 4.7.4 lays them     *)
(* out.  A frame is [type, delta, locals, stack]: delta counts for the     *)
(* types that carry an explicit offset_delta, locals and stack are the     *)
(* counts of a full frame.  A local is Integer (one byte), a stack value   *)
(* is Object (three bytes).                                                *)
(***************************************************************************)
LocalBytes == <<1>>

StackBytes == <<7, 0, 2>>

RECURSIVE Repeat(_, _)
Repeat(bytes, n) == IF n = 0 THEN <<>> ELSE bytes \o Repeat(bytes, n - 1)

FullFrameBytes(f) ==
    BE16(f.delta) \o BE16(f.locals) \o Repeat(LocalBytes, f.locals)
        \o BE16(f.stack) \o Repeat(StackBytes, f.stack)

FrameBytes(f, compressed) ==
    IF ~compressed THEN FullFrameBytes(f)
    ELSE CASE f.type \in 0..63 -> <<f.type>>
           [] f.type \in 64..127 -> <<f.type>> \o StackBytes
           [] f.type = 247 -> <<f.type>> \o BE16(f.delta) \o StackBytes
           [] f.type \in 252..254 -> <<f.type>> \o BE16(f.delta) \o Repeat(LocalBytes, f.type - 251)
           [] f.type = 255 -> <<f.type>> \o FullFrameBytes(f)
           [] OTHER -> <<f.type>> \o BE16(f.delta)

RECURSIVE TableBytes(_, _)
TableBytes(table, compressed) ==
    IF table = <<>> THEN <<>>
    ELSE FrameBytes(Head(table), compressed) \o TableBytes(Tail(table), compressed)

FrameOf(type, delta) ==
    [type |-> type, delta |-> IF type <= 127 THEN 0 ELSE delta,
     locals |-> IF type = 255 THEN 2 ELSE 0, stack |-> IF type = 255 THEN 1 ELSE 0]

\* The explicit offset deltas: none, small, and past the end of the code.
FrameDeltas == {0, 3, 300}

\* One type of every range and the ends of the ranges.
SampleFrameTypes == {0, 63, 64, 127, 128, 246, 247, 248, 250, 251, 252, 254, 255}

FrameTables ==
    {<<FrameOf(type, delta)>> : type \in 0..255, delta \in FrameDeltas}
        \cup SeqsOver({FrameOf(type, delta) : type \in SampleFrameTypes, delta \in FrameDeltas},
                      2..MaxFrames)

InitFrames ==
    /\ sf_table \in FrameTables
    /\ sf_compressed \in BOOLEAN
    /\ ~sf_compressed => \A j \in DOMAIN sf_table : sf_table[j].type = 255
    /\ sf_data = BE16(Len(sf_table)) \o TableBytes(sf_table, sf_compressed)
    /\ sf = <<>>
    /\ sf_frames = <<>>
    /\ sf_status = "called"
    /\ SfRest

\* lines 2777-2780: the frame count is read; the loop has all its turns left.
ReadFrameCount ==
    /\ sf_status = "called"
    /\ LET frame_count == read_u16(sf_data, 0) IN
       IF ~IsOk(frame_count)
       THEN /\ sf' = [err |-> frame_count.err]
            /\ sf_status' = "err"
       ELSE /\ sf' = [err |-> NoError, offset |-> 2, left |-> frame_count.value,
                      last_code_offset |-> None]
            /\ sf_status' = "reading"
    /\ UNCHANGED <<sf_table, sf_compressed, sf_data, sf_frames, sfOthers>>

\* lines 2782-2872: one turn of the loop: the type byte (255 where the table is
\* not compressed), the frame, its code offset, its place in insn_metadata.
ReadFrame ==
    /\ sf_status = "reading"
    /\ sf.left > 0
    /\ LET type_byte == read_u8(sf_data, sf.offset)
           frame_type == IF sf_compressed THEN type_byte.value ELSE 255
           offset == IF sf_compressed THEN sf.offset + 1 ELSE sf.offset
       IN  IF sf_compressed /\ ~IsOk(type_byte)
           THEN /\ sf' = [sf EXCEPT !.err = type_byte.err]
                /\ sf_status' = "err"
                /\ UNCHANGED sf_frames
           ELSE \E got \in {MatchFrameType(sf_data, offset, frame_type)} :
                IF ~IsOk(got)
                THEN /\ sf' = [sf EXCEPT !.err = got.err]
                     /\ sf_status' = "err"
                     /\ UNCHANGED sf_frames
                ELSE \E code_offset \in {CodeOffset(sf.last_code_offset, got.offset_delta)} :
                     IF code_offset >= FrameMetaLen
                     THEN /\ sf' = [sf EXCEPT !.err = FrameError("CodeOffsetOutOfBounds"),
                                              !.offset = got.offset,
                                              !.last_code_offset = Some(code_offset)]
                          /\ sf_status' = "err"
                          /\ UNCHANGED sf_frames
                     ELSE /\ sf' = [sf EXCEPT !.offset = got.offset, !.left = @ - 1,
                                              !.last_code_offset = Some(code_offset)]
                          /\ sf_frames' = Append(sf_frames,
                                                 [code_offset |-> code_offset, frame |-> got.frame])
                          /\ UNCHANGED sf_status
    /\ UNCHANGED <<sf_table, sf_compressed, sf_data, sfOthers>>

\* line 2875: the loop is over, read_frames returns Ok(()).
ReadFramesOk ==
    /\ sf_status = "reading"
    /\ sf.left = 0
    /\ sf_status' = "ok"
    /\ UNCHANGED <<sf_table, sf_compressed, sf_data, sf, sf_frames, sfOthers>>

NextFrames ==
    \/ ReadFrameCount
    \/ ReadFrame
    \/ ReadFramesOk

SpecFrames == InitFrames /\ [][NextFrames]_vars

\* The offset delta and the frame the claim gives a frame type.
DeltaOfType(f) ==
    IF f.type \in 0..63 THEN f.type ELSE IF f.type \in 64..127 THEN f.type - 64 ELSE f.delta

KindOfType(type) ==
    CASE type \in 0..63 -> "Same"
      [] type \in 64..127 -> "Same1"
      [] type = 247 -> "Same1"
      [] type \in 248..250 -> "Chop"
      [] type = 251 -> "Same"
      [] type \in 252..254 -> "Append"
      [] type = 255 -> "Full"
      [] OTHER -> "BadFrameType"

RECURSIVE OffsetOfFrame(_, _)
\* The first frame stands at its offset_delta, each later one at the previous
\* offset plus its offset_delta plus one.
OffsetOfFrame(table, j) ==
    IF j = 1 THEN DeltaOfType(table[1])
    ELSE OffsetOfFrame(table, j - 1) + DeltaOfType(table[j]) + 1

\* The frame that read_frames was reading when it returned an error.
FailedFrame == sf_table[Len(sf_frames) + 1]

\* C26: the j-th frame stored stands at the offset of the j-th frame declared
\* (offset_delta for the first, previous + offset_delta + 1 later, so strictly
\* increasing) and has the kind of its type byte: same 0-63, same-locals-1-stack-item
\* 64-127 and 247, chop 248-250 with 251 - type locals, same-extended 251, append
\* 252-254 with type - 251 locals, full 255; a type 128-246 fails with BadFrameType
\* and no other type does.
C26_FrameTypesAndOffsets ==
    sf_status \in {"reading", "ok", "err"} /\ sf_compressed =>
        /\ Len(sf_frames) <= Len(sf_table)
        /\ \A j \in DOMAIN sf_frames :
              LET type == sf_table[j].type
                  frame == sf_frames[j].frame
              IN  /\ sf_frames[j].code_offset = OffsetOfFrame(sf_table, j)
                  /\ j > 1 => sf_frames[j].code_offset > sf_frames[j - 1].code_offset
                  /\ frame.kind = KindOfType(type)
                  /\ type \in 248..250 => frame.num_locals = 251 - type
                  /\ type \in 252..254 => Len(frame.locals) = type - 251
        /\ sf_status = "ok" => Len(sf_frames) = Len(sf_table)
        /\ sf_status = "err" =>
              (sf.err = FrameError("BadFrameType") <=> FailedFrame.type \in 128..246)

C26_Witness ==
    /\ sf_status = "ok"
    /\ sf_compressed
    /\ Len(sf_frames) = 2
    /\ sf_table[1].type = 64
    /\ sf_table[2].type = 250
    /\ sf_frames[2].code_offset = 4


(***************************************************************************)
(* The decoding of annotations: read_annotation, read_annotation_values,   *)
(* read_annotation_array and read_annotation_value (class_reader.rs        *)
(* 3271-3288 and 3503-3643).  An annotation is [values |-> <<value>>], the *)
(* element names left out; a value is [tag |-> "@", annotation |-> a],     *)
(* [tag |-> "[", values |-> <<value>>] or [tag |-> t] for a constant.  The *)
(* bytes are all there and the constant pool holds what the values name.   *)
(***************************************************************************)
\* constants.rs is not among the sources read; the specification says
\* "Maximum annotation nesting is a compile-time constant (recommended: 128)".
\* The functions below compare depth with it and use it nowhere else; a small
\* value keeps the nested values small.
MAX_ANNOTATION_NESTING == 4

ConstantTags == {"B", "C", "D", "F", "I", "J", "S", "Z", "s", "e", "c"}

AnnotationErr(err) == [err |-> err, node |-> <<>>]

AnnotationOk(node) == [err |-> "", node |-> node]

RECURSIVE read_annotation(_, _)
RECURSIVE read_annotation_array(_, _)
RECURSIVE read_annotation_value(_, _)
RECURSIVE ReadValueList(_, _)

\* lines 3512-3520 and 3539-3541: the loop over the values, left at the
\* first error.
ReadValueList(values, depth) ==
    IF values = <<>> THEN AnnotationOk(<<>>)
    ELSE LET value == read_annotation_value(Head(values), depth) IN
         IF value.err # "" THEN value
         ELSE LET rest == ReadValueList(Tail(values), depth) IN
              IF rest.err # "" THEN rest
              ELSE AnnotationOk(<<value.node>> \o rest.node)

\* lines 3503-3523.
read_annotation_values(values, depth) == ReadValueList(values, depth)

\* lines 3271-3288.
read_annotation(annotation, depth) ==
    IF depth > MAX_ANNOTATION_NESTING THEN AnnotationErr("TooDeepAnnotationNesting")
    ELSE LET values == read_annotation_values(annotation.values, depth) IN
         IF values.err # "" THEN values
         ELSE AnnotationOk([values |-> values.node])

\* The array refused one level early.
read_annotation_array_early(values, depth) ==
    IF depth >= MAX_ANNOTATION_NESTING THEN AnnotationErr("TooDeepAnnotationNesting")
    ELSE ReadValueList(values, depth)

\* lines 3525-3544.
read_annotation_array(values, depth) ==
    IF depth > MAX_ANNOTATION_NESTING THEN AnnotationErr("TooDeepAnnotationNesting")
    ELSE ReadValueList(values, depth)

\* lines 3546-3643.
read_annotation_value(value, depth) ==
    CASE value.tag \in ConstantTags -> AnnotationOk(value)
      [] value.tag = "@" ->
           LET annotation == read_annotation(value.annotation, depth + 1) IN
           IF annotation.err # "" THEN annotation
           ELSE AnnotationOk([tag |-> "@", annotation |-> annotation.node])
      [] value.tag = "[" ->
           LET array == read_annotation_array(value.values, depth + 1) IN
           IF array.err # "" THEN array
           ELSE AnnotationOk([tag |-> "[", values |-> array.node])
      [] OTHER -> AnnotationErr("BadAnnotationTag")

(***************************************************************************)
(* The values decoded: a path of nested values, of annotations only, of    *)
(* arrays only or of the two in turn, ending in a constant or in a value   *)
(* of no known tag, bare or with a constant before and a one-value array   *)
(* after the nested value of every level.                                  *)
(***************************************************************************)
MaxNesting == 6

Wrap(tag, values) ==
    IF tag = "@" THEN [tag |-> "@", annotation |-> [values |-> values]]
    ELSE [tag |-> "[", values |-> values]

NestTag(pattern, level) ==
    CASE pattern = "@" -> "@"
      [] pattern = "[" -> "["
      [] pattern = "@[" -> IF level % 2 = 1 THEN "@" ELSE "["
      [] pattern = "[@" -> IF level % 2 = 1 THEN "[" ELSE "@"

RECURSIVE NestedValue(_, _, _, _, _)
\* The value at the given level of a path that nests `nesting` values.
NestedValue(pattern, level, nesting, leaf, wide) ==
    IF level > nesting THEN [tag |-> leaf]
    ELSE LET inner == NestedValue(pattern, level + 1, nesting, leaf, wide) IN
         Wrap(NestTag(pattern, level),
              IF wide THEN <<[tag |-> "I"], inner, Wrap("[", <<[tag |-> "s"]>>)>>
              ELSE <<inner>>)

NestedValues ==
    {NestedValue(pattern, 1, nesting, leaf, wide) :
        pattern \in {"@", "[", "@[", "[@"}, nesting \in 0..MaxNesting,
        leaf \in {"I", "?"}, wide \in BOOLEAN}

InitAnnotation ==
    /\ an_entry \in {"annotation", "value"}
    /\ \E value \in NestedValues :
          an_tree = IF an_entry = "annotation" THEN [values |-> <<value>>] ELSE value
    /\ an_result = <<>>
    /\ AnRest

\* line 3680 (and 3166, 3216): an annotation of an annotations attribute is
\* read at depth 0.
ReadAnnotation ==
    /\ an_entry = "annotation"
    /\ an_result = <<>>
    /\ an_result' = read_annotation(an_tree, 0)
    /\ UNCHANGED <<an_entry, an_tree, anOthers>>

\* lines 1597-1604: annotation_default reads the value at depth 0.
AnnotationDefault ==
    /\ an_entry = "value"
    /\ an_result = <<>>
    /\ an_result' = read_annotation_value(an_tree, 0)
    /\ UNCHANGED <<an_entry, an_tree, anOthers>>

NextAnnotation ==
    \/ ReadAnnotation
    \/ AnnotationDefault

SpecAnnotation == InitAnnotation /\ [][NextAnnotation]_vars

RECURSIVE NestingOfValue(_)
RECURSIVE NestingOfValues(_)
\* The deepest nesting of "@" and "[" values among the values.
NestingOfValues(values) ==
    IF values = <<>> THEN 0
    ELSE LET head == NestingOfValue(Head(values))
             tail == NestingOfValues(Tail(values))
         IN  IF head > tail THEN head ELSE tail

\* How many "@" and "[" values nest on the deepest path of the value, the
\* value itself counted.
NestingOfValue(value) ==
    CASE value.tag = "@" -> 1 + NestingOfValues(value.annotation.values)
      [] value.tag = "[" -> 1 + NestingOfValues(value.values)
      [] OTHER -> 0

Nesting == IF an_entry = "annotation" THEN NestingOfValues(an_tree.values) ELSE NestingOfValue(an_tree)

RECURSIVE KnownTags(_)
\* Every value of the list, and every value nested in one, has a tag of an
\* element value.
KnownTags(values) ==
    \A j \in DOMAIN values :
        CASE values[j].tag = "@" -> KnownTags(values[j].annotation.values)
          [] values[j].tag = "[" -> KnownTags(values[j].values)
          [] OTHER -> values[j].tag \in ConstantTags

WellTagged == IF an_entry = "annotation" THEN KnownTags(an_tree.values) ELSE KnownTags(<<an_tree>>)

\* C27: a decoded annotation or element value is rejected with
\* TooDeepAnnotationNesting when its nesting of "@" and "[" values exceeds
\* MAX_ANNOTATION_NESTING (unless a value of no known tag is met first, which
\* rejects it with BadAnnotationTag), and is not rejected for depth when it
\* does not.
C27_NestingBounded ==
    an_result # <<>> =>
        /\ Nesting > MAX_ANNOTATION_NESTING =>
              /\ an_result.err # ""
              /\ WellTagged => an_result.err = "TooDeepAnnotationNesting"
        /\ Nesting <= MAX_ANNOTATION_NESTING => an_result.err # "TooDeepAnnotationNesting"

C27_Witness ==
    /\ an_result # <<>>
    /\ Nesting = MAX_ANNOTATION_NESTING + 1
    /\ an_result.err = "TooDeepAnnotationNesting"

C27_WitnessWithin ==
    /\ an_result # <<>>
    /\ Nesting = MAX_ANNOTATION_NESTING
    /\ an_result.err = ""


(***************************************************************************)
(* The events of a module: ClassReaderEvents::module, ModuleReaderEvents   *)
(* and the iterators of its tables (class_reader.rs 571-602, 3771-3997,    *)
(* 4183-4205), over the bytes of the attributes ModuleMainClass,           *)
(* ModulePackages and Module (JVMS 4.7.25-4.7.27).                         *)
(***************************************************************************)
MaxModuleEntries == 2

\* The tags of the entries 1..7 of the constant pool of the module-info class.
ModulePoolTags == <<"Utf8", "Class", "Module", "Package", "Class", "Module", "Package">>

ModuleError(kind) == [kind |-> kind]

\* constant_pool.rs 168-203: the error of a typed getter, NoError for Ok.
ModuleGet(index, tag) ==
    IF index \notin DOMAIN ModulePoolTags THEN ModuleError("BadConstantPoolIndex")
    ELSE IF ModulePoolTags[index] # tag THEN ModuleError("BadConstantPoolType")
    ELSE NoError

Read(err, offset, value) == [err |-> err, offset |-> offset, value |-> value]

\* A failed read handed on with the offset it stopped at.
Failed(r) == Read(r.err, r.offset, <<>>)

\* An item put before the items of a read that follows it.
Cons(item, rest) == Read(rest.err, rest.offset, <<item>> \o rest.value)

\* A u16 constant-pool index at offset with the typed getter run on it; the
\* offset moves on after the getter has returned Ok.
ReadIndex(data, offset, tag) ==
    LET index == read_u16(data, offset) IN
    IF ~IsOk(index) THEN Read(index.err, offset, 0)
    ELSE IF ModuleGet(index.value, tag) # NoError THEN Read(ModuleGet(index.value, tag), offset, 0)
    ELSE Read(NoError, offset + 2, index.value)

RECURSIVE ReadIndexes(_, _, _, _)

\* One index read, the indices after it are read where it is no error.
IndexesAfter(data, count, tag, index) ==
    IF ~IsOk(index) THEN Failed(index)
    ELSE Cons(index.value, ReadIndexes(data, index.offset, count - 1, tag))

\* lines 3964-3971 and 3991-3998: `count` indices pushed on a Vec.
ReadIndexes(data, offset, count, tag) ==
    IF count = 0 THEN Read(NoError, offset, <<>>)
    ELSE IndexesAfter(data, count, tag, ReadIndex(data, offset, tag))

\* lines 3929-3949: the read function of ModuleRequireReaderIterator.
ReadRequire(data, offset) ==
    LET module == ReadIndex(data, offset, "Module")
        access == read_u16(data, offset + 2)
        version == read_u16(data, offset + 4)
    IN  IF ~IsOk(module) THEN Read(module.err, offset, <<>>)
        ELSE IF ~IsOk(access) THEN Read(access.err, offset + 2, <<>>)
        ELSE IF ~IsOk(version) THEN Read(version.err, offset + 4, <<>>)
        ELSE IF version.value # 0 /\ ModuleGet(version.value, "Utf8") # NoError
        THEN Read(ModuleGet(version.value, "Utf8"), offset + 4, <<>>)
        ELSE Read(NoError, offset + 6,
                  [module |-> module.value, access |-> access.value, version |-> version.value])

\* The event with the indices that have been read under the name `field`.
Counted(event, field, indices) ==
    IF ~IsOk(indices) THEN Failed(indices)
    ELSE Read(NoError, indices.offset, event @@ (field :> indices.value))

\* lines 3961-3977 and 3988-4000: a u16 count at offset and as many indices
\* behind it, put in the event under the name `field`.
ReadCounted(data, offset, tag, event, field) ==
    LET count == read_u16(data, offset) IN
    IF ~IsOk(count) THEN Read(count.err, offset, <<>>)
    ELSE Counted(event, field, ReadIndexes(data, offset + 2, count.value, tag))

\* lines 3951-3978: the read function of ModuleRelationReaderIterator.
ReadRelation(data, offset) ==
    LET package == ReadIndex(data, offset, "Package")
        access == read_u16(data, offset + 2)
    IN  IF ~IsOk(package) THEN Read(package.err, offset, <<>>)
        ELSE IF ~IsOk(access) THEN Read(access.err, offset + 2, <<>>)
        ELSE ReadCounted(data, offset + 4, "Module",
                         [package |-> package.value, access |-> access.value], "modules")

\* lines 3980-3998: the read function of ModuleProvidesReaderIterator.
ReadProvides(data, offset) ==
    LET service == ReadIndex(data, offset, "Class") IN
    IF ~IsOk(service) THEN Read(service.err, offset, <<>>)
    ELSE ReadCounted(data, offset + 2, "Class", [service |-> service.value], "providers")

\* The read function of the iterator of a kind of event (for Uses and
\* Packages lines 4183-4205).
ReadEntry(kind, data, offset) ==
    CASE kind = "Requires" -> ReadRequire(data, offset)
      [] kind \in {"Exports", "Opens"} -> ReadRelation(data, offset)
      [] kind = "Provides" -> ReadProvides(data, offset)
      [] kind = "Uses" -> ReadIndex(data, offset, "Class")
      [] kind = "Packages" -> ReadIndex(data, offset, "Package")

RECURSIVE Drain(_, _, _, _)

\* lines 52-62: the item that has been read is returned, the next one is read
\* where it left the offset.
DrainAfter(kind, data, remaining, item) ==
    <<IF IsOk(item) THEN item.value ELSE [err |-> item.err]>>
        \o Drain(kind, data, remaining - 1, item.offset)

\* lines 30-72: what an iterator made by define_simple_iterator returns up to
\* its None: `remaining` items, each read where the one before left the offset.
Drain(kind, data, remaining, offset) ==
    IF remaining = 0 THEN <<>>
    ELSE DrainAfter(kind, data, remaining, ReadEntry(kind, data, offset))

\* An event that carries an iterator: the iterator as constructed and what
\* it yields.
TableEvent(kind, data, count, offset, state) ==
    [kind |-> kind, state |-> state, count |-> count, offset |-> offset,
     entries |-> Drain(kind, data, count, offset)]

ModuleItem(kind, state) == [kind |-> kind, state |-> state]

ModuleErr(err, state) == [kind |-> "Err", state |-> state, err |-> err]

RECURSIVE SkipRelations(_, _, _)
\* lines 3837-3841: the loop of relations_internal over the relations.
SkipRelations(data, offset, relation_count) ==
    IF relation_count = 0 THEN [err |-> NoError, offset |-> offset]
    ELSE LET module_count == read_u16(data, offset + 4) IN
         IF ~IsOk(module_count) THEN [err |-> module_count.err, offset |-> offset + 4]
         ELSE SkipRelations(data, offset + 4 + 2 + module_count.value * 2, relation_count - 1)

\* lines 3783-3792 with 3877-3881: state 0.
MainClassItem(self, data) ==
    LET main_class == ReadIndex(data, self.main_offset, "Utf8") IN
    IF ~IsOk(main_class) THEN ModuleErr(main_class.err, 0)
    ELSE [kind |-> "MainClass", state |-> 0, main_class |-> main_class.value]

\* lines 3794-3805 with 3882-3886: state 1.
PackagesItem(self, data) ==
    LET packages_count == read_u16(data, self.packages_offset) IN
    IF ~IsOk(packages_count) THEN ModuleErr(packages_count.err, 1)
    ELSE TableEvent("Packages", data, packages_count.value, self.packages_offset + 2, 1)

\* The offset past a table of `count` entries that starts at start_offset.
SkipTable(data, kind, start_offset, count) ==
    CASE kind = "Requires" -> [err |-> NoError, offset |-> start_offset + count * 6]
      [] kind = "Uses" -> [err |-> NoError, offset |-> start_offset + count * 2]
      [] OTHER -> SkipRelations(data, start_offset, count)

\* lines 3807-3825, 3827-3849, 3851-3867: requires_internal, relations_internal
\* and uses_internal: the count at self.offset, then self.offset moved past the
\* table.  The result is the reader after the call and the item returned, <<>>
\* where the table is empty.
TableInternal(self, data, kind, state) ==
    LET count == read_u16(data, self.offset)
        start_offset == self.offset + 2
    IN  IF ~IsOk(count) THEN [self |-> self, ret |-> ModuleErr(count.err, state)]
        ELSE IF count.value = 0 THEN [self |-> [self EXCEPT !.offset = start_offset], ret |-> <<>>]
        ELSE LET skipped == SkipTable(data, kind, start_offset, count.value) IN
             IF ~IsOk(skipped)
             THEN [self |-> [self EXCEPT !.offset = skipped.offset], ret |-> ModuleErr(skipped.err, state)]
             ELSE [self |-> [self EXCEPT !.offset = skipped.offset],
                   ret |-> TableEvent(kind, data, count.value, start_offset, state)]

\* lines 3898-3915: state 6; self.offset stays.
ProvidesInternal(self, data) ==
    LET provides_count == read_u16(data, self.offset) IN
    IF ~IsOk(provides_count) THEN [self |-> self, ret |-> ModuleErr(provides_count.err, 6)]
    ELSE IF provides_count.value = 0 THEN [self |-> self, ret |-> <<>>]
    ELSE [self |-> self,
          ret |-> TableEvent("Provides", data, provides_count.value, self.offset + 2, 6)]

RECURSIVE ModuleReaderEventsNext(_, _, _)

\* lines 3876-3916: the match on the state, `after` being the reader with its
\* state moved on.
ModuleStep(self, after, data, state) ==
    CASE state = 0 ->
           [self |-> after,
            ret |-> IF self.main_offset = 0 THEN <<>> ELSE MainClassItem(self, data)]
      [] state = 1 ->
           [self |-> after,
            ret |-> IF self.packages_offset = 0 THEN <<>> ELSE PackagesItem(self, data)]
      [] state = 2 -> TableInternal(after, data, "Requires", 2)
      [] state = 3 -> TableInternal(after, data, "Exports", 3)
      [] state = 4 -> TableInternal(after, data, "Opens", 4)
      [] state = 5 -> TableInternal(after, data, "Uses", 5)
      [] state = 6 -> ProvidesInternal(after, data)
      [] OTHER -> [self |-> after, ret |-> ModuleItem("None", state)]

\* lines 3873 and 3917-3918: the loop goes on where the state had nothing to
\* return.
ModuleLoop(step, data, checked) ==
    IF step.ret # <<>> THEN step
    ELSE ModuleReaderEventsNext(step.self, data, checked)

\* lines 3872-3920: ModuleReaderEvents::next.  `self.state += 1` on the u8
\* state panics at 255 where overflow checks are compiled in and wraps to 0
\* where they are not.
ModuleReaderEventsNext(self, data, checked) ==
    IF self.state = U8Max /\ checked
    THEN [self |-> self, ret |-> ModuleItem("panic", self.state)]
    ELSE ModuleLoop(ModuleStep(self, [self EXCEPT !.state = (self.state + 1) % (U8Max + 1)],
                               data, self.state),
                    data, checked)

(***************************************************************************)
(* The modules read.  A module is                                          *)
(*   [main |-> <<>> or <<class index>>, packages |-> <<>> or <<indices>>,  *)
(*    requires |-> <<[module, access, version]>>,                          *)
(*    exports, opens |-> <<[package, access, modules]>>,                   *)
(*    uses |-> <<class index>>, provides |-> <<[service, providers]>>]     *)
(* with main and packages None where the attribute is absent.              *)
(***************************************************************************)
Require(j) == [module |-> IF j = 1 THEN 3 ELSE 6, access |-> 32 * j, version |-> j % 2]

Relation(package, modules) == [package |-> package, access |-> Len(modules), modules |-> modules]

Provide(service, providers) == [service |-> service, providers |-> providers]

RelationTables ==
    {<<>>, <<Relation(4, <<>>)>>, <<Relation(7, <<3, 6>>)>>,
     <<Relation(4, <<>>), Relation(7, <<6>>)>>, <<Relation(7, <<6, 3>>), Relation(4, <<3>>)>>}

ProvidesTables ==
    {<<>>, <<Provide(2, <<5>>)>>, <<Provide(5, <<2, 5>>), Provide(2, <<2>>)>>}

Modules ==
    [main : {None, Some(2)},
     packages : {None, Some(<<>>), Some(<<7, 4>>)},
     requires : {[j \in 1..n |-> Require(j)] : n \in 0..MaxModuleEntries},
     exports : RelationTables,
     opens : RelationTables,
     uses : {[j \in 1..n |-> IF j % 2 = 1 THEN 5 ELSE 2] : n \in 0..MaxModuleEntries},
     provides : ProvidesTables]

RECURSIVE Flat(_)
\* The byte strings of a sequence one after the other.
Flat(parts) == IF parts = <<>> THEN <<>> ELSE Head(parts) \o Flat(Tail(parts))

IndexBytes(indices) == Flat([j \in DOMAIN indices |-> BE16(indices[j])])

\* A table: its u16 count, then its entries.
Table(entries) == BE16(Len(entries)) \o Flat(entries)

RequireBytes(r) == BE16(r.module) \o BE16(r.access) \o BE16(r.version)

RelationBytes(r) ==
    BE16(r.package) \o BE16(r.access) \o BE16(Len(r.modules)) \o IndexBytes(r.modules)

ProvideBytes(r) == BE16(r.service) \o BE16(Len(r.providers)) \o IndexBytes(r.providers)

\* JVMS 4.7.25: the info of the Module attribute; the module is entry 3, its
\* flags are 0 and it has no version.
ModuleInfo(module) ==
    <<0, 3, 0, 0, 0, 0>>
        \o Table([j \in DOMAIN module.requires |-> RequireBytes(module.requires[j])])
        \o Table([j \in DOMAIN module.exports |-> RelationBytes(module.exports[j])])
        \o Table([j \in DOMAIN module.opens |-> RelationBytes(module.opens[j])])
        \o Table([j \in DOMAIN module.uses |-> BE16(module.uses[j])])
        \o Table([j \in DOMAIN module.provides |-> ProvideBytes(module.provides[j])])

\* JVMS 4.7.27 and 4.7.26: the infos of ModuleMainClass and ModulePackages.
MainInfo(module) == IF module.main = None THEN <<>> ELSE BE16(module.main[1])

PackagesInfo(module) ==
    IF module.packages = None THEN <<>>
    ELSE Table([j \in DOMAIN module.packages[1] |-> BE16(module.packages[1][j])])

\* The infos one after the other behind a first byte, so that no attribute
\* stands at offset 0.
ModuleData(module) == <<0>> \o MainInfo(module) \o PackagesInfo(module) \o ModuleInfo(module)

MainOffset(module) == IF module.main = None THEN 0 ELSE 1

PackagesOffset(module) == IF module.packages = None THEN 0 ELSE 1 + Len(MainInfo(module))

ModuleOffset(module) == 1 + Len(MainInfo(module)) + Len(PackagesInfo(module))

InitModule ==
    /\ md_module \in Modules
    /\ md_data = ModuleData(md_module)
    /\ md = <<>>
    /\ md_status = "new"
    /\ md_out = <<>>
    /\ MdRest

\* lines 571-602: ClassReaderEvents::module makes the ModuleReaderEvents.
ModuleEvent ==
    /\ md_status = "new"
    /\ md' = [offset |-> ModuleOffset(md_module) + 6,
              packages_offset |-> PackagesOffset(md_module),
              main_offset |-> MainOffset(md_module),
              state |-> 0]
    /\ md_status' = "active"
    /\ UNCHANGED <<md_module, md_data, md_out, mdOthers>>

\* lines 3872-3920: ModuleReaderEvents::next, called until it returns None.
ModuleNext ==
    /\ md_status = "active"
    /\ IF md_out = <<>> THEN TRUE ELSE Last(md_out).kind # "None"
    /\ \E r \in {ModuleReaderEventsNext(md, md_data, TRUE)} :
          /\ md' = r.self
          /\ md_status' = IF r.ret.kind = "panic" THEN "panicked" ELSE "active"
          /\ md_out' = IF r.ret.kind = "panic" THEN md_out ELSE Append(md_out, r.ret)
    /\ UNCHANGED <<md_module, md_data, mdOthers>>

NextModule ==
    \/ ModuleEvent
    \/ ModuleNext

SpecModule == InitModule /\ [][NextModule]_vars

\* The events the claim gives a module, in order: [kind, entries].
Declared(module) ==
    (IF module.main = None THEN <<>> ELSE <<[kind |-> "MainClass", entries |-> module.main]>>)
    \o (IF module.packages = None \/ module.packages = Some(<<>>) THEN <<>>
        ELSE <<[kind |-> "Packages", entries |-> module.packages[1]]>>)
    \o SelectSeq(<<[kind |-> "Requires", entries |-> module.requires],
                   [kind |-> "Exports", entries |-> module.exports],
                   [kind |-> "Opens", entries |-> module.opens],
                   [kind |-> "Uses", entries |-> module.uses],
                   [kind |-> "Provides", entries |-> module.provides]>>,
                 LAMBDA e : e.entries # <<>>)

\* What an item returned by next() carries, as [kind, entries].
Carried(item) ==
    [kind |-> item.kind,
     entries |-> CASE item.kind = "MainClass" -> <<item.main_class>>
                   [] item.kind \in {"Err", "None"} -> <<>>
                   [] OTHER -> item.entries]

ModuleDrained == md_out # <<>> /\ Last(md_out).kind = "None"

\* C28: the events of a module are MainClass, Packages, Requires, Exports,
\* Opens, Uses, Provides in this order, those of absent attributes and empty
\* tables left out, then None; each table event's iterator yields the entries
\* the class file declares, in their order.
C28_ModuleEventsInOrder ==
    ModuleDrained =>
        [j \in 1..(Len(md_out) - 1) |-> Carried(md_out[j])] = Declared(md_module)

\* The same of the five tables of the Module attribute alone.
ModuleTablesInOrder ==
    ModuleDrained =>
        SelectSeq([j \in 1..(Len(md_out) - 1) |-> Carried(md_out[j])],
                  LAMBDA e : e.kind \in {"Requires", "Exports", "Opens", "Uses", "Provides"})
            = SelectSeq(Declared(md_module), LAMBDA e : e.kind \notin {"MainClass", "Packages"})


(***************************************************************************)
(* The annotations of a member: annotations() and AnnotationReaderIterator *)
(* (class_reader.rs 1606-1614 and 3645-3707) over the bytes of the         *)
(* attributes RuntimeVisibleAnnotations and RuntimeInvisibleAnnotations    *)
(* (JVMS 4.7.16): read_annotation and the functions it calls, at the       *)
(* level of the bytes.                                                     *)
(***************************************************************************)
MaxAnnotations == 2

\* The tags of the entries 1..5 of the constant pool of the class.
AnnotationPoolTags == <<"Utf8", "Integer", "Double", "Float", "Long">>

\* The tag byte of an element value and the pool tag its constant must have.
ValueTagBytes ==
    [B |-> 66, C |-> 67, D |-> 68, F |-> 70, I |-> 73, J |-> 74, S |-> 83, Z |-> 90,
     s |-> 115, e |-> 101, c |-> 99]

ValuePoolTag(tag) ==
    CASE tag \in {66, 67, 73, 83, 90} -> "Integer"
      [] tag = 68 -> "Double"
      [] tag = 70 -> "Float"
      [] tag = 74 -> "Long"
      [] OTHER -> "Utf8"

\* A u16 constant-pool index at offset with the typed getter run on it.
AnnotationIndex(data, offset, tag) ==
    LET index == read_u16(data, offset) IN
    IF ~IsOk(index) THEN Read(index.err, offset, 0)
    ELSE IF index.value \notin DOMAIN AnnotationPoolTags
    THEN Read(ModuleError("BadConstantPoolIndex"), offset, 0)
    ELSE IF AnnotationPoolTags[index.value] # tag
    THEN Read(ModuleError("BadConstantPoolType"), offset, 0)
    ELSE Read(NoError, offset + 2, index.value)

RECURSIVE ReadAnnotationBytes(_, _, _)
RECURSIVE ReadPairsBytes(_, _, _, _)
RECURSIVE ReadArrayBytes(_, _, _)
RECURSIVE ReadValuesBytes(_, _, _, _)
RECURSIVE ReadValueBytes(_, _, _)

\* lines 3619-3630: an enum value, its two indices standing at offset.
ReadEnumBytes(data, offset) ==
    LET desc == AnnotationIndex(data, offset, "Utf8") IN
    IF ~IsOk(desc) THEN Read(desc.err, desc.offset, <<>>)
    ELSE LET name == AnnotationIndex(data, offset + 2, "Utf8") IN
         IF ~IsOk(name) THEN Read(name.err, name.offset, <<>>)
         ELSE Read(NoError, offset + 4, [tag |-> "e", desc |-> desc.value, name |-> name.value])

\* lines 3555-3618 and 3631-3637: a constant value, its index standing at offset.
ReadConstantBytes(data, offset, tag) ==
    LET constant == AnnotationIndex(data, offset, ValuePoolTag(tag)) IN
    IF ~IsOk(constant) THEN Read(constant.err, constant.offset, <<>>)
    ELSE Read(NoError, offset + 2,
              [tag |-> CHOOSE t \in DOMAIN ValueTagBytes : ValueTagBytes[t] = tag,
               value |-> constant.value])

\* lines 3638-3639: the value of a nested annotation that has been read.
NestedAnnotation(annotation) ==
    IF ~IsOk(annotation) THEN Failed(annotation)
    ELSE Read(NoError, annotation.offset, [tag |-> "@", annotation |-> annotation.value])

\* lines 3640: the value of an array that has been read.
NestedArray(array) ==
    IF ~IsOk(array) THEN Failed(array)
    ELSE Read(NoError, array.offset, [tag |-> "[", values |-> array.value])

\* lines 3553-3642: the match on the tag byte that has been read at offset.
ValueOfTag(data, offset, depth, tag) ==
    CASE ~IsOk(tag) -> Read(tag.err, offset, <<>>)
      [] tag.value = 101 -> ReadEnumBytes(data, offset + 1)
      [] \E t \in DOMAIN ValueTagBytes : ValueTagBytes[t] = tag.value ->
           ReadConstantBytes(data, offset + 1, tag.value)
      [] tag.value = 64 -> NestedAnnotation(ReadAnnotationBytes(data, offset + 1, depth + 1))
      [] tag.value = 91 -> NestedArray(ReadArrayBytes(data, offset + 1, depth + 1))
      [] OTHER -> Read(ModuleError("BadAnnotationTag"), offset + 1, <<>>)

\* lines 3546-3643: read_annotation_value.
ReadValueBytes(data, offset, depth) ==
    ValueOfTag(data, offset, depth, read_u8(data, offset))

\* lines 3537-3541: one turn of the loop of read_annotation_array, its value read.
ValuesAfter(data, count, depth, value) ==
    IF ~IsOk(value) THEN Failed(value)
    ELSE Cons(value.value, ReadValuesBytes(data, value.offset, count - 1, depth))

\* lines 3537-3541: the loop of read_annotation_array.
ReadValuesBytes(data, offset, count, depth) ==
    IF count = 0 THEN Read(NoError, offset, <<>>)
    ELSE ValuesAfter(data, count, depth, ReadValueBytes(data, offset, depth))

\* lines 3535-3541: read_annotation_array with its count read.
ArrayOfCount(data, offset, depth, num_values) ==
    IF ~IsOk(num_values) THEN Read(num_values.err, offset, <<>>)
    ELSE ReadValuesBytes(data, offset + 2, num_values.value, depth)

\* lines 3525-3544: read_annotation_array.
ReadArrayBytes(data, offset, depth) ==
    IF depth > MAX_ANNOTATION_NESTING
    THEN Read(ModuleError("TooDeepAnnotationNesting"), offset, <<>>)
    ELSE ArrayOfCount(data, offset, depth, read_u16(data, offset))

\* lines 3516-3519: one turn of the loop of read_annotation_values, its value read.
PairValue(data, count, depth, name, value) ==
    IF ~IsOk(value) THEN Failed(value)
    ELSE Cons([name |-> name, value |-> value.value],
              ReadPairsBytes(data, value.offset, count - 1, depth))

\* lines 3513-3515: one turn of the loop of read_annotation_values, its name read.
PairName(data, offset, count, depth, name) ==
    IF ~IsOk(name) THEN Failed(name)
    ELSE PairValue(data, count, depth, name.value, ReadValueBytes(data, offset + 2, depth))

\* lines 3512-3520: the loop of read_annotation_values over the pairs.
ReadPairsBytes(data, offset, count, depth) ==
    IF count = 0 THEN Read(NoError, offset, <<>>)
    ELSE PairName(data, offset, count, depth, AnnotationIndex(data, offset, "Utf8"))

\* lines 3283-3287: the annotation of the pairs that have been read.
AnnotationValues(desc, values) ==
    IF ~IsOk(values) THEN Failed(values)
    ELSE Read(NoError, values.offset, [desc |-> desc, values |-> values.value])

\* lines 3508-3511: read_annotation_values with its count read.
AnnotationCount(data, offset, depth, desc, num_values) ==
    IF ~IsOk(num_values) THEN Read(num_values.err, offset, <<>>)
    ELSE AnnotationValues(desc, ReadPairsBytes(data, offset + 2, num_values.value, depth))

\* lines 3280-3282: read_annotation with its type index read.
AnnotationDesc(data, offset, depth, desc) ==
    IF ~IsOk(desc) THEN Failed(desc)
    ELSE AnnotationCount(data, offset + 2, depth, desc.value, read_u16(data, offset + 2))

\* lines 3271-3288 with 3503-3523: read_annotation.
ReadAnnotationBytes(data, offset, depth) ==
    IF depth > MAX_ANNOTATION_NESTING
    THEN Read(ModuleError("TooDeepAnnotationNesting"), offset, <<>>)
    ELSE AnnotationDesc(data, offset, depth, AnnotationIndex(data, offset, "Utf8"))

\* The item that stands for an annotation whose value has no known tag.
BadTagValue == [tag |-> "?"]

RECURSIVE ValueBytes(_)
\* JVMS 4.7.16.1: the bytes of an element value.
ValueBytes(value) ==
    CASE value.tag = "e" -> <<101>> \o BE16(value.desc) \o BE16(value.name)
      [] value.tag = "@" ->
           <<64>> \o BE16(value.annotation.desc) \o BE16(Len(value.annotation.values))
               \o Flat([j \in DOMAIN value.annotation.values |->
                           BE16(value.annotation.values[j].name)
                               \o ValueBytes(value.annotation.values[j].value)])
      [] value.tag = "[" ->
           <<91>> \o BE16(Len(value.values))
               \o Flat([j \in DOMAIN value.values |-> ValueBytes(value.values[j])])
      [] value.tag = "?" -> <<63, 0, 1>>
      [] OTHER -> <<ValueTagBytes[value.tag]>> \o BE16(value.value)

\* JVMS 4.7.16: the bytes of an annotation.
AnnotationBytes(annotation) ==
    Tail(ValueBytes([tag |-> "@", annotation |-> annotation]))

SampleAnnotations ==
    {[desc |-> 1, values |-> <<>>],
     [desc |-> 1, values |-> <<[name |-> 1, value |-> [tag |-> "I", value |-> 2]],
                               [name |-> 1, value |-> [tag |-> "e", desc |-> 1, name |-> 1]]>>],
     [desc |-> 1, values |-> <<[name |-> 1, value |->
                                   [tag |-> "[", values |-> <<[tag |-> "s", value |-> 1],
                                        [tag |-> "@", annotation |-> [desc |-> 1, values |-> <<>>]]>>]]>>],
     [desc |-> 1, values |-> <<[name |-> 1, value |-> BadTagValue]>>]}

Annotated(visible, annotation) == [kind |-> "Annotation", visible |-> visible, annotation |-> annotation]

\* lines 3673-3682: event, of the annotation that has been read.
AnnotationEvent(visible, annotation) ==
    [offset |-> annotation.offset,
     ret |-> IF IsOk(annotation) THEN Annotated(visible, annotation.value)
             ELSE [kind |-> "Err", err |-> annotation.err]]

AnnotationEventAt(data, visible, offset) ==
    AnnotationEvent(visible, ReadAnnotationBytes(data, offset, 0))

\* lines 3689-3691: a visible annotation taken.
VisibleTaken(self, event) ==
    [self |-> [self EXCEPT !.visible_remaining = @ - 1, !.visible_offset = event.offset],
     ret |-> event.ret]

\* lines 3693-3695: an invisible annotation taken.
InvisibleTaken(self, event) ==
    [self |-> [self EXCEPT !.invisible_remaining = @ - 1, !.invisible_offset = event.offset],
     ret |-> event.ret]

\* The iterator with the invisible annotations taken first.
AnnotationReaderIteratorNextInvisibleFirst(self, data) ==
    IF self.invisible_remaining # 0
    THEN InvisibleTaken(self, AnnotationEventAt(data, FALSE, self.invisible_offset))
    ELSE IF self.visible_remaining # 0
    THEN VisibleTaken(self, AnnotationEventAt(data, TRUE, self.visible_offset))
    ELSE [self |-> self, ret |-> [kind |-> "None"]]

\* lines 3688-3698: AnnotationReaderIterator::next.
AnnotationReaderIteratorNext(self, data) ==
    IF self.visible_remaining # 0
    THEN VisibleTaken(self, AnnotationEventAt(data, TRUE, self.visible_offset))
    ELSE IF self.invisible_remaining # 0
    THEN InvisibleTaken(self, AnnotationEventAt(data, FALSE, self.invisible_offset))
    ELSE [self |-> self, ret |-> [kind |-> "None"]]

\* The info of an annotations attribute, none for no annotation (the
\* attribute is absent).
AnnotationsInfo(annotations) ==
    IF annotations = <<>> THEN <<>>
    ELSE Table([j \in DOMAIN annotations |-> AnnotationBytes(annotations[j])])

InitAnnotations ==
    /\ ai_visible \in SeqsOver(SampleAnnotations, 0..MaxAnnotations)
    /\ ai_invisible \in SeqsOver(SampleAnnotations, 0..MaxAnnotations)
    /\ ai_data = <<0>> \o AnnotationsInfo(ai_invisible) \o AnnotationsInfo(ai_visible)
    /\ ai = <<>>
    /\ ai_out = <<>>
    /\ AiRest

\* lines 1217-1228 with 1606-1614: the counts and offsets the attribute scan
\* has found (0 for an absent attribute) make the iterator.
Annotations ==
    /\ ai_data # <<>>
    /\ ai = <<>>
    /\ LET invisible_pos == 1
           visible_pos == 1 + Len(AnnotationsInfo(ai_invisible))
       IN  ai' = [visible_remaining |->
                     IF ai_visible = <<>> THEN 0 ELSE read_u16(ai_data, visible_pos).value,
                  visible_offset |-> IF ai_visible = <<>> THEN 0 ELSE visible_pos + 2,
                  invisible_remaining |->
                     IF ai_invisible = <<>> THEN 0 ELSE read_u16(ai_data, invisible_pos).value,
                  invisible_offset |-> IF ai_invisible = <<>> THEN 0 ELSE invisible_pos + 2]
    /\ UNCHANGED <<ai_visible, ai_invisible, ai_data, ai_out, aiOthers>>

\* lines 3688-3698: next(), called once more after it has returned None.
AnnotationNext ==
    /\ ai # <<>>
    /\ Len(ai_out) - Len(Yielded(ai_out)) < 2
    /\ \E r \in {AnnotationReaderIteratorNext(ai, ai_data)} :
          /\ ai' = r.self
          /\ ai_out' = Append(ai_out, r.ret)
    /\ UNCHANGED <<ai_visible, ai_invisible, ai_data, aiOthers>>

NextAnnotations ==
    \/ Annotations
    \/ AnnotationNext

SpecAnnotations == InitAnnotations /\ [][NextAnnotations]_vars

\* Every annotation of the two attributes decodes.
AnnotationsWellFormed ==
    \A annotation \in KindsOf(ai_visible \o ai_invisible) :
        \A j \in DOMAIN annotation.values : annotation.values[j].value # BadTagValue

\* C29: the iterator returns visible_count + invisible_count items and then
\* None: first the annotations of RuntimeVisibleAnnotations in file order with
\* visible = TRUE, then those of RuntimeInvisibleAnnotations in file order
\* with visible = FALSE.
C29_VisibleThenInvisible ==
    (ai_out # <<>> /\ Last(ai_out).kind = "None") =>
        LET items == Yielded(ai_out) IN
        /\ Len(items) = Len(ai_visible) + Len(ai_invisible)
        /\ \A j \in DOMAIN ai_out : j > Len(items) => ai_out[j].kind = "None"
        /\ \A j \in DOMAIN items :
              items[j].kind = "Annotation" => items[j].visible = (j <= Len(ai_visible))
        /\ AnnotationsWellFormed =>
              items = [j \in 1..Len(items) |->
                          IF j <= Len(ai_visible) THEN Annotated(TRUE, ai_visible[j])
                          ELSE Annotated(FALSE, ai_invisible[j - Len(ai_visible)])]

C29_Witness ==
    /\ Len(ai_visible) = 2
    /\ Len(ai_invisible) = 2
    /\ AnnotationsWellFormed
    /\ ai_visible[1] # ai_visible[2]
    /\ Len(ai_out) = 6
    /\ ai_out[2].visible = TRUE
    /\ ai_out[3].visible = FALSE
    /\ ai_out[6].kind = "None"


(***************************************************************************)
(* One DefaultLabelCreator and the threads that call create_label on it.   *)
(* fetch_add is one atomic read-modify-write of next_id; a call is its     *)
(* entry and that operation, and the calls of the callers interleave.      *)
(***************************************************************************)
\* The most callers that share the creator, and the most calls they make.
MaxCallers == 3

MaxCreated == 4

\* label.rs 10-13: the derived Default, next_id 0.
InitLabel ==
    /\ lc_next_id = 0
    /\ \E n \in 1..MaxCallers :
          /\ lc_callers = [t \in 1..n |-> "idle"]
          /\ lc_labels = [t \in 1..n |-> <<>>]
    /\ LcRest

\* The calls that have returned, each as <<caller, position>>.
LabelCalls == UNION {{<<t, k>> : k \in DOMAIN lc_labels[t]} : t \in DOMAIN lc_labels}

Calling == {t \in DOMAIN lc_callers : lc_callers[t] = "calling"}

\* label.rs 16: a caller enters create_label.
CallCreateLabel(t) ==
    /\ lc_callers[t] = "idle"
    /\ Cardinality(LabelCalls) + Cardinality(Calling) < MaxCreated
    /\ lc_callers' = [lc_callers EXCEPT ![t] = "calling"]
    /\ UNCHANGED <<lc_next_id, lc_labels, lcOthers>>

\* label.rs 17: `Label(self.next_id.fetch_add(1, Ordering::Relaxed))`, and the return.
FetchAdd(t) ==
    /\ lc_callers[t] = "calling"
    /\ \E c \in {CreateLabel(lc_next_id)} :
          /\ lc_next_id' = c.next_id
          /\ lc_labels' = [lc_labels EXCEPT ![t] = Append(@, c.label)]
    /\ lc_callers' = [lc_callers EXCEPT ![t] = "idle"]
    /\ UNCHANGED lcOthers

NextLabel ==
    \/ \E t \in DOMAIN lc_callers : CallCreateLabel(t)
    \/ \E t \in DOMAIN lc_callers : FetchAdd(t)

SpecLabel == InitLabel /\ [][NextLabel]_vars

LabelOf(call) == lc_labels[call[1]][call[2]]

\* C39: the Labels that create_label has returned to the callers of one
\* creator are pairwise distinct and are the numbers from 0 on without a
\* gap, however the calls interleave: no two calls have seen the same value
\* of the counter, and each caller gets its Labels in ascending order.
C39_LabelsDistinctFromZero ==
    /\ \A p, q \in LabelCalls : p # q => LabelOf(p) # LabelOf(q)
    /\ {LabelOf(p) : p \in LabelCalls} = 0..(Cardinality(LabelCalls) - 1)
    /\ lc_next_id = Cardinality(LabelCalls)
    /\ \A p, q \in LabelCalls : (p[1] = q[1] /\ p[2] < q[2]) => LabelOf(p) < LabelOf(q)

\* Two callers inside create_label at once, after which the first has got
\* the Labels 0 and 2 and the second the Label between them.
C39_Witness ==
    /\ Len(lc_callers) >= 2
    /\ lc_labels[1] = <<0, 2>>
    /\ lc_labels[2] = <<1>>
    /\ Calling # {}

====
